---- MODULE Spec2Model ----
(***************************************************************************)
(* odhlint-bundle: the OLM bundle linter of jctanner/odh-linter, and       *)
(* errordemote, its go/analysis source linter.                             *)
(*                                                                         *)
(* The model follows one process run of cmd/odhlint-bundle (main): load    *)
(* the bundle from the file system, select the rules from --enable and     *)
(* --disable, validate, sort and report, derive the exit status.           *)
(*                                                                         *)
(* Representation                                                          *)
(*   - a Go pointer or optional value is a sequence of length 0 (nil) or 1 *)
(*   - a command-line argument is a sequence of tokens: "," and " " are    *)
(*     the two characters parseRuleList treats specially, every other      *)
(*     token is a maximal run of other characters (a word)                 *)
(*   - a file path is a pair <<directory, entry>>; the pairs are ordered   *)
(*     as the path strings are: ".../manifests/..." sorts before           *)
(*     ".../metadata/annotations.yaml", and manifests sort by their        *)
(*     position in the directory listing (os.ReadDir sorts by file name)   *)
(*   - a YAML value of type interface{} is a record [t |-> type, v |-> _]  *)
(***************************************************************************)
EXTENDS Integers, Sequences, FiniteSets, TLC

VARIABLES
    fs,           \* the bundle directory on disk
    enable,       \* value of --enable
    disable,      \* value of --disable
    noWarnings,   \* value of --no-warnings
    stdoutFails,  \* writes to os.Stdout fail
    mapSeed,      \* the Go runtime's per-process map iteration seed
    pc,           \* position of main
    bundle,       \* result of loader.LoadBundle: <<>> or <<Bundle>>
    loadErr,      \* error of loader.LoadBundle ("" when nil)
    rulesToRun,   \* result of selectRules: rule IDs
    validated,    \* rule IDs whose Validate was invoked, in order
    violations,   \* the violation slice of main
    stdout,       \* what was written to os.Stdout
    stderr,       \* what was written to os.Stderr
    exitCode,     \* <<>> while running, <<code>> after os.Exit
    firstRun,     \* outcome of the previous run, <<>> in the first run
    pass,         \* errordemote: the analysis.Pass (the files of the package)
    runpc,        \* errordemote: position of run
    visited,      \* errordemote: the if statements Preorder has handed to run
    diagnostics,  \* errordemote: what pass.Reportf was called with, in order
    edited,       \* errordemote: <<>>, or the earlier run and the edit made since
    query,        \* registry: the id GetRuleByID is called with
    looked,       \* registry: GetRuleByID has returned
    found,        \* registry: what GetRuleByID returned
    listing       \* registry: what the calls of GetAllRules returned, in order

vars == <<fs, enable, disable, noWarnings, stdoutFails, mapSeed, pc, bundle,
          loadErr, rulesToRun, validated, violations, stdout, stderr, exitCode,
          firstRun, pass, runpc, visited, diagnostics, edited,
          query, looked, found, listing>>

\* the state of the errordemote analyzer
lintVars == <<pass, runpc, visited, diagnostics, edited>>

\* the state of the callers of the rule registry
registryVars == <<query, looked, found, listing>>

\* the state of odhlint-bundle
bundleVars == <<fs, enable, disable, noWarnings, stdoutFails, mapSeed, pc, bundle,
                loadErr, rulesToRun, validated, violations, stdout, stderr, exitCode,
                firstRun>>

------------------------------------------------------------------------------
(* Bounds of the model *)

\* longest --enable and --disable taken together, in tokens
MaxArgLen == 3
\* most entries of the manifests directory
MaxFiles == 2
\* errordemote: most lines between a comment or a second if statement and an if
\* statement
MaxGap == 4
\* registry: most calls of GetAllRules
MaxCalls == 3

------------------------------------------------------------------------------
(* Generic helpers *)

Range(s) == {s[i] : i \in 1..Len(s)}

RECURSIVE Flatten(_)
Flatten(ss) == IF ss = <<>> THEN <<>> ELSE Head(ss) \o Flatten(Tail(ss))

SeqsUpTo(S, n) == UNION {[1..k -> S] : k \in 0..n}

Get(f, k, default) == IF k \in DOMAIN f THEN f[k] ELSE default

------------------------------------------------------------------------------
(* pkg/rules/types.go *)

SeverityError == "error"
SeverityWarning == "warning"
SeverityInfo == "info"

\* rules.Violation; Line is never set by a rule (0), Message tells the findings
\* of one rule apart
Violation(id, sev, file, msg) ==
    [RuleID |-> id, Severity |-> sev, File |-> file, Line |-> 0, Message |-> msg]

\* rules.Bundle before anything is loaded (loader.go: bundle := &rules.Bundle{...})
EmptyBundle == [CSV |-> <<>>, CRDs |-> <<>>, OtherResources |-> <<>>, Annotations |-> <<>>]

------------------------------------------------------------------------------
(* Strings as token sequences *)

Comma == ","
Space == " "

\* strings.TrimSpace
RECURSIVE TrimLeft(_)
TrimLeft(s) == IF s # <<>> /\ Head(s) = Space THEN TrimLeft(Tail(s)) ELSE s

RECURSIVE TrimRight(_)
TrimRight(s) ==
    IF s # <<>> /\ s[Len(s)] = Space THEN TrimRight(SubSeq(s, 1, Len(s) - 1)) ELSE s

TrimSpace(s) == TrimRight(TrimLeft(s))

\* strings.Split(s, ","): the parts between the commas, Len = commas + 1
RECURSIVE SplitFrom(_, _)
SplitFrom(s, cur) ==
    IF s = <<>> THEN <<cur>>
    ELSE IF Head(s) = Comma THEN <<cur>> \o SplitFrom(Tail(s), <<>>)
    ELSE SplitFrom(Tail(s), Append(cur, Head(s)))

Split(s) == SplitFrom(s, <<>>)

------------------------------------------------------------------------------
(* pkg/loader/loader.go *)

ManifestsDir == 1
MetadataDir == 2

\* filepath.Join(bundle.ManifestsPath, file.Name()) of the i-th directory entry
ManifestPath(i) == <<ManifestsDir, i>>
\* filepath.Join(bundle.MetadataPath, "annotations.yaml")
AnnotationsPath == <<MetadataDir, 1>>

\* the channels of the annotations document: split at commas, each part trimmed;
\* the field stays nil when the annotation is empty or missing
ParseChannels(channelsStr) ==
    IF channelsStr = <<>> THEN <<>>
    ELSE LET parts == Split(channelsStr)
         IN  [i \in 1..Len(parts) |-> TrimSpace(parts[i])]

\* loadAnnotations: [ann |-> the Annotations field afterwards, err |-> error]
loadAnnotations(annotations) ==
    CASE annotations.state = "absent" ->
            [ann |-> <<>>, err |-> ""]
      [] annotations.state = "unreadable" ->
            [ann |-> <<>>, err |-> "failed to read annotations file"]
      [] annotations.state = "invalid" ->
            [ann |-> <<>>, err |-> "failed to parse annotations YAML"]
      [] OTHER ->
            [ann |-> <<[FilePath |-> AnnotationsPath,
                        Channels |-> ParseChannels(annotations.channels)]>>,
             err |-> ""]

\* parseCSV: the typed decode of a ClusterServiceVersion document
parseCSV(filePath, doc) ==
    IF doc.shape # "ok" THEN [val |-> <<>>, err |-> "yaml"]
    ELSE [val |-> <<[FilePath |-> filePath,
                     Name |-> doc.name,
                     MinKubeVersion |-> Get(doc.spec, "minKubeVersion", ""),
                     InstallModes |-> Get(doc.spec, "installModes", <<>>),
                     WebhookDefinitions |-> Get(doc.spec, "webhookdefinitions", <<>>)]>>,
          err |-> ""]

\* parseCRD: the typed decode of a CustomResourceDefinition document
parseCRD(filePath, doc) ==
    IF doc.shape # "ok" THEN [val |-> <<>>, err |-> "yaml"]
    ELSE [val |-> <<[FilePath |-> filePath,
                     Name |-> doc.name,
                     Group |-> Get(doc.spec, "group", ""),
                     Plural |-> Get(doc.spec, "plural", ""),
                     PreserveUnknownFields |-> Get(doc.spec, "preserveUnknownFields", <<>>)]>>,
          err |-> ""]

\* parseResource: the generic decode; only metadata and spec are retained
parseResource(filePath, doc) ==
    IF doc.shape # "ok" THEN [val |-> <<>>, err |-> "yaml"]
    ELSE [val |-> <<[FilePath |-> filePath,
                     Kind |-> doc.kind,
                     Name |-> doc.name,
                     Spec |-> doc.spec]>>,
          err |-> ""]

\* loadManifestFile keeping the first ClusterServiceVersion it meets
loadManifestFile_FirstCSVWins(b, filePath, entry) ==
    IF ~entry.readable THEN [bundle |-> b, err |-> "failed to read file"]
    ELSE IF entry.doc.shape = "invalid" THEN [bundle |-> b, err |-> "failed to parse YAML"]
    ELSE CASE entry.doc.kind = "ClusterServiceVersion" ->
                LET r == parseCSV(filePath, entry.doc)
                IN  IF r.err # "" THEN [bundle |-> b, err |-> "failed to parse CSV"]
                    ELSE [bundle |-> [b EXCEPT !.CSV = IF b.CSV = <<>> THEN r.val ELSE b.CSV],
                          err |-> ""]
           [] entry.doc.kind = "CustomResourceDefinition" ->
                LET r == parseCRD(filePath, entry.doc)
                IN  IF r.err # "" THEN [bundle |-> b, err |-> "failed to parse CRD"]
                    ELSE [bundle |-> [b EXCEPT !.CRDs = b.CRDs \o r.val], err |-> ""]
           [] OTHER ->
                LET r == parseResource(filePath, entry.doc)
                IN  IF r.err # "" THEN [bundle |-> b, err |-> "failed to parse resource"]
                    ELSE [bundle |-> [b EXCEPT !.OtherResources = b.OtherResources \o r.val],
                          err |-> ""]

\* loadManifestFile: [bundle |-> the bundle afterwards, err |-> error]
loadManifestFile(b, filePath, entry) ==
    IF ~entry.readable THEN [bundle |-> b, err |-> "failed to read file"]
    ELSE IF entry.doc.shape = "invalid" THEN [bundle |-> b, err |-> "failed to parse YAML"]
    ELSE CASE entry.doc.kind = "ClusterServiceVersion" ->
                LET r == parseCSV(filePath, entry.doc)
                IN  IF r.err # "" THEN [bundle |-> b, err |-> "failed to parse CSV"]
                    ELSE [bundle |-> [b EXCEPT !.CSV = r.val], err |-> ""]
           [] entry.doc.kind = "CustomResourceDefinition" ->
                LET r == parseCRD(filePath, entry.doc)
                IN  IF r.err # "" THEN [bundle |-> b, err |-> "failed to parse CRD"]
                    ELSE [bundle |-> [b EXCEPT !.CRDs = b.CRDs \o r.val], err |-> ""]
           [] OTHER ->
                LET r == parseResource(filePath, entry.doc)
                IN  IF r.err # "" THEN [bundle |-> b, err |-> "failed to parse resource"]
                    ELSE [bundle |-> [b EXCEPT !.OtherResources = b.OtherResources \o r.val],
                          err |-> ""]

\* the loop of loadManifests skipping a manifest that cannot be loaded
RECURSIVE loadManifestsFrom_SkipBroken(_, _, _)
loadManifestsFrom_SkipBroken(b, files, i) ==
    IF i > Len(files) THEN [bundle |-> b, err |-> ""]
    ELSE IF files[i].isDir THEN loadManifestsFrom_SkipBroken(b, files, i + 1)
    ELSE IF files[i].suffix \notin {"yaml", "yml"}
         THEN loadManifestsFrom_SkipBroken(b, files, i + 1)
    ELSE loadManifestsFrom_SkipBroken(loadManifestFile(b, ManifestPath(i), files[i]).bundle,
                                      files, i + 1)

\* the loop of loadManifests from entry i on
RECURSIVE loadManifestsFrom(_, _, _)
loadManifestsFrom(b, files, i) ==
    IF i > Len(files) THEN [bundle |-> b, err |-> ""]
    ELSE IF files[i].isDir THEN loadManifestsFrom(b, files, i + 1)
    ELSE IF files[i].suffix \notin {"yaml", "yml"} THEN loadManifestsFrom(b, files, i + 1)
    ELSE LET r == loadManifestFile(b, ManifestPath(i), files[i])
         IN  IF r.err # "" THEN [bundle |-> r.bundle, err |-> r.err]
             ELSE loadManifestsFrom(r.bundle, files, i + 1)

\* loadManifests
loadManifests(b, disk) ==
    CASE disk.manifestsDir = "absent" ->
            [bundle |-> b, err |-> "manifests directory not found"]
      [] disk.manifestsDir = "unlistable" ->
            [bundle |-> b, err |-> "failed to read manifests directory"]
      [] OTHER -> loadManifestsFrom(b, disk.manifests, 1)

\* LoadBundle on a directory whose annotations document and entries are given:
\* [bundle |-> <<>> (nil) or <<Bundle>>, err |-> the chain of the wrapped
\* error, outermost first (<<>> is nil)]
LoadBundle(disk) ==
    IF ~disk.root THEN [bundle |-> <<>>, err |-> <<"bundle path does not exist">>]
    ELSE LET a == loadAnnotations(disk.annotations)
         IN  IF a.err # ""
             THEN [bundle |-> <<>>, err |-> <<"failed to load annotations", a.err>>]
             ELSE LET m == loadManifests([EmptyBundle EXCEPT !.Annotations = a.ann], disk)
                  IN  IF m.err # ""
                      THEN [bundle |-> <<>>, err |-> <<"failed to load manifests", m.err>>]
                      ELSE [bundle |-> <<m.bundle>>, err |-> <<>>]

------------------------------------------------------------------------------
(* pkg/rules: the eight rules *)

\* what a call of Validate yields: it returns a violation slice, or the goroutine
\* panics on a nil pointer dereference
Returns(vs) == [panicked |-> FALSE, violations |-> vs]
NilDereference == [panicked |-> TRUE, violations |-> <<>>]

\* strings.ToLower on the words of the model
ToLower(w) ==
    CASE w = "ValidatingWebhookConfigurations" -> "validatingwebhookconfigurations"
      [] w = "MutatingWebhookConfigurations" -> "mutatingwebhookconfigurations"
      [] w = "Stable" -> "stable"
      [] w = "RESILIENCE" -> "resilience"
      [] w = "Optional" -> "optional"
      [] w = "FAST" -> "fast"
      [] w = "Beta" -> "beta"
      [] OTHER -> w

\* the minKubeVersion rule reporting with the severity Error
MinKubeVersionValidate_AsError(b) ==
    IF b.CSV = <<>> THEN Returns(<<>>)
    ELSE IF b.CSV[1].MinKubeVersion = ""
         THEN Returns(<<Violation("ODH-OLM-001", SeverityError, b.CSV[1].FilePath,
                                  <<"missing minKubeVersion">>)>>)
         ELSE Returns(<<>>)

\* ODH-OLM-001 MinKubeVersionRule.Validate
MinKubeVersionValidate(b) ==
    IF b.CSV = <<>> THEN Returns(<<>>)
    ELSE IF b.CSV[1].MinKubeVersion = ""
         THEN Returns(<<Violation("ODH-OLM-001", SeverityWarning, b.CSV[1].FilePath,
                                  <<"missing minKubeVersion">>)>>)
         ELSE Returns(<<>>)

containsWildcard(groups) == \E i \in 1..Len(groups) : groups[i] = "*"

containsOperatorGroup(groups) == \E i \in 1..Len(groups) : groups[i] = "operators.coreos.com"

\* the resource names compared as they are written
containsWebhookConfigResources_CaseSensitive(resources) ==
    \E i \in 1..Len(resources) :
        resources[i] \in {"validatingwebhookconfigurations",
                          "mutatingwebhookconfigurations"}

containsWebhookConfigResources(resources) ==
    \E i \in 1..Len(resources) :
        ToLower(resources[i]) \in {"validatingwebhookconfigurations",
                                   "mutatingwebhookconfigurations"}

\* the three checks of ODH-OLM-002 on one webhook rule, in the order of the code
WebhookRuleViolations(file, webhook, rule) ==
    (IF containsWildcard(rule.APIGroups)
     THEN <<Violation("ODH-OLM-002", SeverityError, file,
                      <<webhook.GenerateName, "intercepts all API groups">>)>>
     ELSE <<>>)
    \o (IF containsOperatorGroup(rule.APIGroups)
        THEN <<Violation("ODH-OLM-002", SeverityError, file,
                         <<webhook.GenerateName, "intercepts operators.coreos.com">>)>>
        ELSE <<>>)
    \o (IF containsWebhookConfigResources(rule.Resources)
        THEN <<Violation("ODH-OLM-002", SeverityError, file,
                         <<webhook.GenerateName, "intercepts webhook configurations">>)>>
        ELSE <<>>)

\* ODH-OLM-002 WebhookOperatorResourcesRule.Validate
WebhookOperatorResourcesValidate(b) ==
    IF b.CSV = <<>> THEN Returns(<<>>)
    ELSE LET csv == b.CSV[1]
             perWebhook(w) ==
                IF w.Type = "ConversionWebhook" THEN <<>>
                ELSE Flatten([j \in 1..Len(w.Rules) |->
                                 WebhookRuleViolations(csv.FilePath, w, w.Rules[j])])
         IN  Returns(Flatten([i \in 1..Len(csv.WebhookDefinitions) |->
                                 perWebhook(csv.WebhookDefinitions[i])]))

\* the conversion webhook rule satisfied by any AllNamespaces entry, supported or not
ConversionWebhookAllNamespacesValidate_AnyEntry(b) ==
    IF b.CSV = <<>> THEN Returns(<<>>)
    ELSE LET csv == b.CSV[1]
             hasConversionWebhook ==
                \E i \in 1..Len(csv.WebhookDefinitions) :
                    csv.WebhookDefinitions[i].Type = "ConversionWebhook"
             allNamespacesListed ==
                \E i \in 1..Len(csv.InstallModes) :
                    csv.InstallModes[i].Type = "AllNamespaces"
         IN  IF hasConversionWebhook /\ ~allNamespacesListed
             THEN Returns(<<Violation("ODH-OLM-003", SeverityError, csv.FilePath,
                                      <<"AllNamespaces install mode is not supported">>)>>)
             ELSE Returns(<<>>)

\* ODH-OLM-003 ConversionWebhookAllNamespacesRule.Validate
ConversionWebhookAllNamespacesValidate(b) ==
    IF b.CSV = <<>> THEN Returns(<<>>)
    ELSE LET csv == b.CSV[1]
             hasConversionWebhook ==
                \E i \in 1..Len(csv.WebhookDefinitions) :
                    csv.WebhookDefinitions[i].Type = "ConversionWebhook"
             allNamespacesSupported ==
                \E i \in 1..Len(csv.InstallModes) :
                    /\ csv.InstallModes[i].Type = "AllNamespaces"
                    /\ csv.InstallModes[i].Supported
         IN  IF ~hasConversionWebhook THEN Returns(<<>>)
             ELSE IF ~allNamespacesSupported
                  THEN Returns(<<Violation("ODH-OLM-003", SeverityError, csv.FilePath,
                                           <<"AllNamespaces install mode is not supported">>)>>)
                  ELSE Returns(<<>>)

\* isZeroValue comparing a string as it is written
isZeroValue_NoTrim(val) ==
    CASE val.t = "int" -> val.n = 0
      [] val.t = "float" -> val.n = 0
      [] val.t = "string" -> val.s \in {<<"0">>, <<"0%">>}
      [] OTHER -> FALSE

\* isZeroValue: an int or float64 equal to 0, or the string "0" or "0%" after trimming
isZeroValue(val) ==
    CASE val.t = "int" -> val.n = 0
      [] val.t = "float" -> val.n = 0
      [] val.t = "string" -> TrimSpace(val.s) \in {<<"0">>, <<"0%">>}
      [] OTHER -> FALSE

\* isHundredPercent: the string "100%" or "100" after trimming, or a number equal to 100
isHundredPercent(val) ==
    CASE val.t = "string" -> TrimSpace(val.s) \in {<<"100%">>, <<"100">>}
      [] val.t = "int" -> val.n = 100
      [] val.t = "float" -> val.n = 100
      [] OTHER -> FALSE

\* isTrueValue: the boolean true, or one of the strings "true", "True", "TRUE"
isTrueValue(val) ==
    CASE val.t = "bool" -> val.b
      [] val.t = "string" -> val.s \in {<<"true">>, <<"True">>, <<"TRUE">>}
      [] OTHER -> FALSE

\* the loop shared by ODH-OLM-004, 005 and 006: one violation for each generic
\* resource of the kind whose spec holds the field with a forbidden value (reading a
\* nil map yields "not present")
SpecFieldViolations(b, id, kind, field, text) ==
    LET Forbidden(val) ==
            CASE id = "ODH-OLM-004" -> isZeroValue(val)
              [] id = "ODH-OLM-005" -> isHundredPercent(val)
              [] id = "ODH-OLM-006" -> isTrueValue(val)
        one(r) ==
            IF r.Kind # kind THEN <<>>
            ELSE IF field \in DOMAIN r.Spec /\ Forbidden(r.Spec[field])
                 THEN <<Violation(id, SeverityError, r.FilePath, <<r.Name, text>>)>>
                 ELSE <<>>
    IN  Flatten([i \in 1..Len(b.OtherResources) |-> one(b.OtherResources[i])])

\* ODH-OLM-004 PDBMaxUnavailableRule.Validate
PDBMaxUnavailableValidate(b) ==
    Returns(SpecFieldViolations(b, "ODH-OLM-004", "PodDisruptionBudget", "maxUnavailable",
                                "maxUnavailable set to 0 or 0%"))

\* ODH-OLM-005 PDBMinAvailableRule.Validate
PDBMinAvailableValidate(b) ==
    Returns(SpecFieldViolations(b, "ODH-OLM-005", "PodDisruptionBudget", "minAvailable",
                                "minAvailable set to 100%"))

\* ODH-OLM-006 PriorityClassGlobalDefaultRule.Validate
PriorityClassGlobalDefaultValidate(b) ==
    Returns(SpecFieldViolations(b, "ODH-OLM-006", "PriorityClass", "globalDefault",
                                "globalDefault set to true"))

recommendedPrefixes == {"stable", "fast", "candidate", "preview", "alpha", "beta"}

\* strings.HasPrefix(strings.ToLower(channel), prefix) for some recommended prefix:
\* the words of the model start with a prefix only as their first token
hasRecommendedPrefix(channel) ==
    channel # <<>> /\ ToLower(channel[1]) \in recommendedPrefixes

\* the channel rule with the channels kept in a map: the findings come in the order
\* of the map iteration of the process
ChannelNamingValidate_MapOrder(b) ==
    IF b.Annotations = <<>> THEN Returns(<<>>)
    ELSE LET ann == b.Annotations[1]
             n == Len(ann.Channels)
             one(channel) ==
                IF hasRecommendedPrefix(channel) THEN <<>>
                ELSE <<Violation("ODH-OLM-007", SeverityWarning, ann.FilePath,
                                 <<"channel">> \o channel)>>
         IN  Returns(Flatten([i \in 1..n |->
                                 one(ann.Channels[IF mapSeed = "seed1" THEN i ELSE n + 1 - i])]))

\* the channel rule without its nil check of bundle.Annotations
ChannelNamingValidate_NoNilCheck(b) ==
    IF b.Annotations = <<>> THEN NilDereference
    ELSE LET ann == b.Annotations[1]
             one(channel) ==
                IF hasRecommendedPrefix(channel) THEN <<>>
                ELSE <<Violation("ODH-OLM-007", SeverityWarning, ann.FilePath,
                                 <<"channel">> \o channel)>>
         IN  Returns(Flatten([i \in 1..Len(ann.Channels) |-> one(ann.Channels[i])]))

\* ODH-OLM-007 ChannelNamingRule.Validate
ChannelNamingValidate(b) ==
    IF b.Annotations = <<>> THEN Returns(<<>>)
    ELSE LET ann == b.Annotations[1]
             one(channel) ==
                IF hasRecommendedPrefix(channel) THEN <<>>
                ELSE <<Violation("ODH-OLM-007", SeverityWarning, ann.FilePath,
                                 <<"channel">> \o channel)>>
         IN  Returns(Flatten([i \in 1..Len(ann.Channels) |-> one(ann.Channels[i])]))

\* the preserveUnknownFields rule collecting conversionCRDs from webhooks of any type
ConversionPreserveUnknownFieldsValidate_AnyType(b) ==
    IF b.CSV = <<>> THEN Returns(<<>>)
    ELSE LET csv == b.CSV[1]
             conversionCRDs ==
                UNION {Range(csv.WebhookDefinitions[i].ConversionCRDs) :
                          i \in 1..Len(csv.WebhookDefinitions)}
             one(crd) ==
                LET crdFullName == <<crd.Plural, ".", crd.Group>>
                IN  IF crdFullName \notin conversionCRDs THEN <<>>
                    ELSE IF crd.PreserveUnknownFields # <<>> /\ crd.PreserveUnknownFields[1]
                         THEN <<Violation("ODH-OLM-010", SeverityError, crd.FilePath,
                                          <<"preserveUnknownFields=true">> \o crdFullName)>>
                         ELSE <<>>
         IN  IF conversionCRDs = {} THEN Returns(<<>>)
             ELSE Returns(Flatten([i \in 1..Len(b.CRDs) |-> one(b.CRDs[i])]))

\* ODH-OLM-010 ConversionPreserveUnknownFieldsRule.Validate
ConversionPreserveUnknownFieldsValidate(b) ==
    IF b.CSV = <<>> THEN Returns(<<>>)
    ELSE LET csv == b.CSV[1]
             conversionCRDs ==
                UNION {Range(csv.WebhookDefinitions[i].ConversionCRDs) :
                          i \in {j \in 1..Len(csv.WebhookDefinitions) :
                                    csv.WebhookDefinitions[j].Type = "ConversionWebhook"}}
             one(crd) ==
                LET crdFullName == <<crd.Plural, ".", crd.Group>>
                IN  IF crdFullName \notin conversionCRDs THEN <<>>
                    ELSE IF crd.PreserveUnknownFields # <<>> /\ crd.PreserveUnknownFields[1]
                         THEN <<Violation("ODH-OLM-010", SeverityError, crd.FilePath,
                                          <<"preserveUnknownFields=true">> \o crdFullName)>>
                         ELSE <<>>
         IN  IF conversionCRDs = {} THEN Returns(<<>>)
             ELSE Returns(Flatten([i \in 1..Len(b.CRDs) |-> one(b.CRDs[i])]))

------------------------------------------------------------------------------
(* pkg/rules/registry.go *)

\* GetAllRules: the IDs of the registered rules, in registry order
GetAllRules ==
    <<"ODH-OLM-001", "ODH-OLM-002", "ODH-OLM-003", "ODH-OLM-004",
      "ODH-OLM-005", "ODH-OLM-006", "ODH-OLM-007", "ODH-OLM-010">>

\* a lookup that falls back to the first rule of the registry
GetRuleByID_FirstAsDefault(id) ==
    LET hits == {i \in 1..Len(GetAllRules) : GetAllRules[i] = id}
    IN  IF hits = {} THEN <<1>>
        ELSE <<CHOOSE i \in hits : \A j \in hits : i <= j>>

\* GetRuleByID: the first rule of GetAllRules whose ID is id, as <<its position>>;
\* <<>> is nil
GetRuleByID(id) ==
    LET hits == {i \in 1..Len(GetAllRules) : GetAllRules[i] = id}
    IN  IF hits = {} THEN <<>>
        ELSE <<CHOOSE i \in hits : \A j \in hits : i <= j>>

\* rule.Validate(bundle) of the rule with the given ID
Validate(id, b) ==
    CASE id = "ODH-OLM-001" -> MinKubeVersionValidate(b)
      [] id = "ODH-OLM-002" -> WebhookOperatorResourcesValidate(b)
      [] id = "ODH-OLM-003" -> ConversionWebhookAllNamespacesValidate(b)
      [] id = "ODH-OLM-004" -> PDBMaxUnavailableValidate(b)
      [] id = "ODH-OLM-005" -> PDBMinAvailableValidate(b)
      [] id = "ODH-OLM-006" -> PriorityClassGlobalDefaultValidate(b)
      [] id = "ODH-OLM-007" -> ChannelNamingValidate(b)
      [] id = "ODH-OLM-010" -> ConversionPreserveUnknownFieldsValidate(b)

\* ValidateBundle: the rules run in the order given, the results are appended; a
\* panic of a rule ends the loop (and the process)
RECURSIVE ValidateBundleFrom(_, _, _, _)
ValidateBundleFrom(b, rules, i, acc) ==
    IF i > Len(rules) THEN [panicked |-> FALSE, violations |-> acc, called |-> rules]
    ELSE LET r == Validate(rules[i], b)
         IN  IF r.panicked
             THEN [panicked |-> TRUE, violations |-> acc, called |-> SubSeq(rules, 1, i)]
             ELSE ValidateBundleFrom(b, rules, i + 1, acc \o r.violations)

\* ValidateBundle running the rules from the last one to the first
ValidateBundle_LastRuleFirst(b, rules) ==
    ValidateBundleFrom(b, [i \in 1..Len(rules) |-> rules[Len(rules) + 1 - i]], 1, <<>>)

ValidateBundle(b, rules) == ValidateBundleFrom(b, rules, 1, <<>>)

------------------------------------------------------------------------------
(* cmd/odhlint-bundle/main.go: rule selection *)

\* parseRuleList: the set of trimmed, non-empty parts of a comma-separated list
parseRuleList(list) ==
    IF list = <<>> THEN {}
    ELSE {TrimSpace(part) : part \in Range(Split(list))} \ {<<>>}

\* selectRules with the disabled rules removed from an explicit selection as well
selectRules_DisableAlways(en, dis) ==
    LET enabledIDs == parseRuleList(en)
        disabledIDs == parseRuleList(dis)
    IN  SelectSeq(GetAllRules,
                  LAMBDA id : (en = <<>> \/ <<id>> \in enabledIDs) /\ <<id>> \notin disabledIDs)

\* selectRules giving up (no rule) when a list names an ID that is not registered
selectRules_RejectUnknown(en, dis) ==
    LET enabledIDs == parseRuleList(en)
        disabledIDs == parseRuleList(dis)
        registered == {<<GetAllRules[i]>> : i \in 1..Len(GetAllRules)}
    IN  IF ~(enabledIDs \cup disabledIDs \subseteq registered) THEN <<>>
        ELSE IF en # <<>> THEN SelectSeq(GetAllRules, LAMBDA id : <<id>> \in enabledIDs)
        ELSE SelectSeq(GetAllRules, LAMBDA id : <<id>> \notin disabledIDs)

\* selectRules: a rule's ID is a key of the map iff the map holds the one-word string
selectRules(en, dis) ==
    IF en # <<>>
    THEN LET enabledIDs == parseRuleList(en)
         IN  SelectSeq(GetAllRules, LAMBDA id : <<id>> \in enabledIDs)
    ELSE IF dis # <<>>
         THEN LET disabledIDs == parseRuleList(dis)
              IN  SelectSeq(GetAllRules, LAMBDA id : <<id>> \notin disabledIDs)
         ELSE GetAllRules

\* hasErrors
hasErrors(vs) == \E i \in 1..Len(vs) : vs[i].Severity = SeverityError

\* hasWarnings
hasWarnings(vs) == \E i \in 1..Len(vs) : vs[i].Severity = SeverityWarning

------------------------------------------------------------------------------
(* pkg/reporter/reporter.go *)

\* severityWeight
severityWeight(severity) ==
    CASE severity = SeverityError -> 3
      [] severity = SeverityWarning -> 2
      [] severity = SeverityInfo -> 1
      [] OTHER -> 0

\* the < of Go on the file paths of the model
PathLess(p, q) == p[1] < q[1] \/ (p[1] = q[1] /\ p[2] < q[2])

\* the < of Go on rule ID strings: the IDs in lexicographic order
RuleIDOrder ==
    <<"ODH-OLM-001", "ODH-OLM-002", "ODH-OLM-003", "ODH-OLM-004",
      "ODH-OLM-005", "ODH-OLM-006", "ODH-OLM-007", "ODH-OLM-010">>

RuleIDLess(x, y) ==
    \E i, j \in 1..Len(RuleIDOrder) : RuleIDOrder[i] = x /\ RuleIDOrder[j] = y /\ i < j

\* the less function with the severities ascending
Less_SeverityAscending(x, y) ==
    IF x.Severity # y.Severity
    THEN severityWeight(x.Severity) < severityWeight(y.Severity)
    ELSE IF x.File # y.File
         THEN PathLess(x.File, y.File)
         ELSE RuleIDLess(x.RuleID, y.RuleID)

\* the less function handed to sort.Slice by Report
Less(x, y) ==
    IF x.Severity # y.Severity
    THEN severityWeight(x.Severity) > severityWeight(y.Severity)
    ELSE IF x.File # y.File
         THEN PathLess(x.File, y.File)
         ELSE RuleIDLess(x.RuleID, y.RuleID)

Swap(s, i, j) == [s EXCEPT ![i] = s[j], ![j] = s[i]]

\* sort: insertionSortLessFunc, the whole of sort.Slice up to 12 elements
RECURSIVE SinkLeft(_, _)
SinkLeft(s, j) ==
    IF j > 1 /\ Less(s[j], s[j - 1]) THEN SinkLeft(Swap(s, j, j - 1), j - 1) ELSE s

RECURSIVE InsertionSortFrom(_, _)
InsertionSortFrom(s, i) ==
    IF i > Len(s) THEN s ELSE InsertionSortFrom(SinkLeft(s, i), i + 1)

InsertionSort(s) == InsertionSortFrom(s, 2)

\* sort: choosePivot for 8 to 49 elements, the median of the elements at 1/4, 2/4
\* and 3/4 (indices from 1 here); the hint is "increasing" when no pair was out of order
ChoosePivot(s) ==
    LET q == Len(s) \div 4
        i == q + 1
        j == 2 * q + 1
        k == 3 * q + 1
        s1 == Less(s[j], s[i])
        a1 == IF s1 THEN j ELSE i
        b1 == IF s1 THEN i ELSE j
        s2 == Less(s[k], s[b1])
        b2 == IF s2 THEN k ELSE b1
        s3 == Less(s[b2], s[a1])
        b3 == IF s3 THEN a1 ELSE b2
    IN  [pivot |-> b3, increasing |-> ~s1 /\ ~s2 /\ ~s3]

\* sort: partialInsertionSort below 50 elements moves nothing: it reports whether
\* the slice is sorted already
AlreadySorted(s) == \A i \in 2..Len(s) : ~Less(s[i], s[i - 1])

\* sort: the loop of partitionLessFunc, the pivot being the first element
RECURSIVE ScanUp(_, _, _)
ScanUp(s, i, j) == IF i <= j /\ Less(s[i], s[1]) THEN ScanUp(s, i + 1, j) ELSE i

RECURSIVE ScanDown(_, _, _)
ScanDown(s, i, j) == IF i <= j /\ ~Less(s[j], s[1]) THEN ScanDown(s, i, j - 1) ELSE j

RECURSIVE PartitionLoop(_, _, _)
PartitionLoop(s, i, j) ==
    LET i2 == ScanUp(s, i, j)
        j2 == ScanDown(s, i2, j)
    IN  IF i2 > j2 THEN [data |-> Swap(s, j2, 1), mid |-> j2]
        ELSE PartitionLoop(Swap(s, i2, j2), i2 + 1, j2 - 1)

Partition(s, pivot) == PartitionLoop(Swap(s, 1, pivot), 2, Len(s))

\* sort: pdqsortLessFunc on 13 elements: one partition, both sides are short
\* enough for insertion sort
PdqSort(s) ==
    LET c == ChoosePivot(s)
    IN  IF c.increasing /\ AlreadySorted(s) THEN s
        ELSE LET p == Partition(s, c.pivot)
             IN  InsertionSort(SubSeq(p.data, 1, p.mid - 1))
                 \o <<p.data[p.mid]>>
                 \o InsertionSort(SubSeq(p.data, p.mid + 1, Len(s)))

\* sort.Slice(violations, less) as Go 1.19 and later compute it, for the slices of
\* up to 13 elements that the model builds
SortSlice(s) == IF Len(s) <= 12 THEN InsertionSort(s) ELSE PdqSort(s)

\* a line written by the reporter: what it says, its numbers, the violation shown
Line(kind, n, m, v) == [kind |-> kind, n |-> n, m |-> m, v |-> v]

CountSeverity(vs, sev) == Cardinality({i \in 1..Len(vs) : vs[i].Severity = sev})

\* Reporter.Report on a writer that works: the slice is sorted in place, the lines
\* are the header, the counts above zero, and one block for each violation
Report(vs) ==
    IF Len(vs) = 0
    THEN [violations |-> vs, out |-> <<Line("No issues found", 0, 0, <<>>)>>]
    ELSE LET sorted == SortSlice(vs)
             errorCount == CountSeverity(sorted, SeverityError)
             warningCount == CountSeverity(sorted, SeverityWarning)
             infoCount == CountSeverity(sorted, SeverityInfo)
         IN  [violations |-> sorted,
              out |-> <<Line("Found issue(s)", Len(sorted), 0, <<>>)>>
                      \o (IF errorCount > 0
                          THEN <<Line("error(s)", errorCount, 0, <<>>)>> ELSE <<>>)
                      \o (IF warningCount > 0
                          THEN <<Line("warning(s)", warningCount, 0, <<>>)>> ELSE <<>>)
                      \o (IF infoCount > 0
                          THEN <<Line("info", infoCount, 0, <<>>)>> ELSE <<>>)
                      \o [i \in 1..Len(sorted) |-> Line("violation", 0, 0, <<sorted[i]>>)]]

\* ReportSummary with warnings counted as failures too
ReportSummary_FailsOnWarnings(vs) ==
    LET errorCount == CountSeverity(vs, SeverityError)
        warningCount == CountSeverity(vs, SeverityWarning)
    IN  IF errorCount + warningCount > 0
        THEN [failed |-> TRUE,
              out |-> <<Line("Validation failed", errorCount, warningCount, <<>>)>>]
        ELSE [failed |-> FALSE, out |-> <<Line("All checks passed!", 0, 0, <<>>)>>]

\* Reporter.ReportSummary: the error it returns (failed) and the line it writes
ReportSummary(vs) ==
    LET errorCount == CountSeverity(vs, SeverityError)
        warningCount == CountSeverity(vs, SeverityWarning)
    IN  IF errorCount > 0
        THEN [failed |-> TRUE,
              out |-> <<Line("Validation failed", errorCount, warningCount, <<>>)>>]
        ELSE IF warningCount > 0
             THEN [failed |-> FALSE,
                   out |-> <<Line("Validation passed with warning(s)", warningCount, 0, <<>>)>>]
             ELSE [failed |-> FALSE, out |-> <<Line("All checks passed!", 0, 0, <<>>)>>]

------------------------------------------------------------------------------
(* The inputs of the model: YAML documents, directory entries, bundle directories *)

\* an interface{} value of a decoded YAML document: t is its Go type; a string is
\* the token sequence s, a number is n (the floats of the model are whole), a
\* boolean is b
IntVal(n) == [t |-> "int", s |-> <<>>, n |-> n, b |-> FALSE]
FloatVal(n) == [t |-> "float", s |-> <<>>, n |-> n, b |-> FALSE]
StrVal(s) == [t |-> "string", s |-> s, n |-> 0, b |-> FALSE]
BoolVal(b) == [t |-> "bool", s |-> <<>>, n |-> 0, b |-> b]

\* a YAML document: shape "invalid" does not parse at all, "clash" parses but does not
\* decode into the schema of its kind, "ok" does; top holds the top-level fields
\* other than apiVersion, kind, metadata and spec
Doc(shape, kind, name, spec, top) ==
    [shape |-> shape, kind |-> kind, name |-> name, spec |-> spec, top |-> top]

\* an entry of the manifests directory
Entry(suffix, doc) == [isDir |-> FALSE, suffix |-> suffix, readable |-> TRUE, doc |-> doc]

WebhookRule(groups, resources) == [APIGroups |-> groups, Resources |-> resources]

Webhook(type, name, rules, crds) ==
    [Type |-> type, GenerateName |-> name, Rules |-> rules, ConversionCRDs |-> crds]

InstallMode(type, supported) == [Type |-> type, Supported |-> supported]

WidgetsCRDName == <<"widgets", ".", "example.com">>

\* a CSV nothing is wrong with
CleanCSV ==
    Doc("ok", "ClusterServiceVersion", "clean",
        [minKubeVersion |-> "1.25.0",
         installModes |-> <<InstallMode("AllNamespaces", TRUE)>>,
         webhookdefinitions |->
            <<Webhook("ConversionWebhook", "conv", <<>>, <<WidgetsCRDName>>)>>],
        <<>>)

\* a CSV without minKubeVersion, with an admission webhook on every API group and on
\* the webhook configurations, and a conversion webhook without AllNamespaces
BadCSV ==
    Doc("ok", "ClusterServiceVersion", "bad",
        [installModes |-> <<InstallMode("OwnNamespace", TRUE),
                            InstallMode("AllNamespaces", FALSE)>>,
         webhookdefinitions |->
            <<Webhook("ValidatingAdmissionWebhook", "w1",
                      <<WebhookRule(<<"*">>, <<"MutatingWebhookConfigurations">>)>>, <<>>),
              Webhook("ConversionWebhook", "conv", <<>>, <<WidgetsCRDName>>)>>],
        <<>>)

\* a CSV without minKubeVersion whose four admission webhooks each break all three
\* conditions of ODH-OLM-002
BusyWebhook(name) ==
    Webhook("MutatingAdmissionWebhook", name,
            <<WebhookRule(<<"*", "operators.coreos.com">>,
                          <<"validatingwebhookconfigurations">>)>>, <<>>)

BusyCSV ==
    Doc("ok", "ClusterServiceVersion", "busy",
        [webhookdefinitions |->
            <<BusyWebhook("w1"), BusyWebhook("w2"), BusyWebhook("w3"), BusyWebhook("w4")>>],
        <<>>)

PreserveCRD ==
    Doc("ok", "CustomResourceDefinition", "widgets.example.com",
        [group |-> "example.com", plural |-> "widgets", preserveUnknownFields |-> <<TRUE>>],
        <<>>)

PlainCRD == Doc("ok", "CustomResourceDefinition", "gadgets.example.com", <<>>, <<>>)

ZeroPDB ==
    Doc("ok", "PodDisruptionBudget", "pdb",
        [maxUnavailable |-> StrVal(<<"0%">>), minAvailable |-> IntVal(100)], <<>>)

\* a PriorityClass as Kubernetes defines it: globalDefault is a top-level field
GlobalPriorityClass ==
    Doc("ok", "PriorityClass", "high", <<>>, [globalDefault |-> BoolVal(TRUE)])

\* a document without kind and without spec
BareDoc == Doc("ok", "", "bare", <<>>, <<>>)

InvalidDoc == Doc("invalid", "", "", <<>>, <<>>)

ClashCSV == Doc("clash", "ClusterServiceVersion", "clash", <<>>, <<>>)

\* a PodDisruptionBudget, or a resource of another kind, with spec.maxUnavailable
WithMaxUnavailable(kind, val) == Doc("ok", kind, "pdb", [maxUnavailable |-> val], <<>>)

\* a PriorityClass with the top-level fields top and the spec fields spec
PriorityClass(spec, top) == Doc("ok", "PriorityClass", "high", spec, top)

\* a CSV with minKubeVersion and the webhook definitions
WebhookCSV(webhooks) ==
    Doc("ok", "ClusterServiceVersion", "hooks",
        [minKubeVersion |-> "1.25.0", webhookdefinitions |-> webhooks], <<>>)

Admission(rules) == Webhook("ValidatingAdmissionWebhook", "w1", rules, <<>>)

Conversion == Webhook("ConversionWebhook", "conv", <<>>, <<WidgetsCRDName>>)

\* a CSV with minKubeVersion, conversions conversion webhooks and the install modes
InstallCSV(conversions, modes) ==
    Doc("ok", "ClusterServiceVersion", "modes",
        [minKubeVersion |-> "1.25.0", installModes |-> modes,
         webhookdefinitions |->
            <<Admission(<<WebhookRule(<<"apps">>, <<"pods">>)>>)>>
            \o [i \in 1..conversions |-> Conversion]], <<>>)

\* a CRD <plural>.<group> with spec.preserveUnknownFields set as given, <<>> for unset
CRD(plural, group, preserve) ==
    Doc("ok", "CustomResourceDefinition", plural,
        IF preserve = <<>> THEN [group |-> group, plural |-> plural]
        ELSE [group |-> group, plural |-> plural, preserveUnknownFields |-> preserve],
        <<>>)

GadgetsCRDName == <<"gadgets", ".", "example.com">>

MissingCRDName == <<"missing", ".", "example.com">>

\* a webhook of the given type whose conversionCRDs are crds
Converting(type, crds) == Webhook(type, "conv", <<>>, crds)

\* the documents the rules are exercised with, by label
RuleDocOf(label) ==
    CASE label = "pdb-int-0.yaml" -> WithMaxUnavailable("PodDisruptionBudget", IntVal(0))
      [] label = "pdb-float-0.yaml" -> WithMaxUnavailable("PodDisruptionBudget", FloatVal(0))
      [] label = "pdb-str-0.yaml" -> WithMaxUnavailable("PodDisruptionBudget", StrVal(<<"0">>))
      [] label = "pdb-str-0pct.yaml" ->
            WithMaxUnavailable("PodDisruptionBudget", StrVal(<<"0%">>))
      [] label = "pdb-str-padded-0.yaml" ->
            WithMaxUnavailable("PodDisruptionBudget", StrVal(<<Space, "0", Space>>))
      [] label = "pdb-str-padded-0pct.yaml" ->
            WithMaxUnavailable("PodDisruptionBudget", StrVal(<<Space, Space, "0%">>))
      [] label = "pdb-int-1.yaml" -> WithMaxUnavailable("PodDisruptionBudget", IntVal(1))
      [] label = "pdb-str-1.yaml" -> WithMaxUnavailable("PodDisruptionBudget", StrVal(<<"1">>))
      [] label = "pdb-bool.yaml" -> WithMaxUnavailable("PodDisruptionBudget", BoolVal(FALSE))
      [] label = "pdb-min-only.yaml" ->
            Doc("ok", "PodDisruptionBudget", "pdb", [minAvailable |-> IntVal(1)], <<>>)
      [] label = "pdb-no-spec.yaml" -> Doc("ok", "PodDisruptionBudget", "pdb", <<>>, <<>>)
      [] label = "deployment-int-0.yaml" -> WithMaxUnavailable("Deployment", IntVal(0))
      [] label = "pc-top-false.yaml" -> PriorityClass(<<>>, [globalDefault |-> BoolVal(FALSE)])
      [] label = "pc-absent.yaml" -> PriorityClass(<<>>, [value |-> IntVal(1000)])
      [] label = "pc-top-str-true.yaml" ->
            PriorityClass(<<>>, [globalDefault |-> StrVal(<<"true">>)])
      [] label = "pc-top-str-True.yaml" ->
            PriorityClass(<<>>, [globalDefault |-> StrVal(<<"True">>)])
      [] label = "pc-top-str-TRUE.yaml" ->
            PriorityClass(<<>>, [globalDefault |-> StrVal(<<"TRUE">>)])
      [] label = "pc-spec-true.yaml" -> PriorityClass([globalDefault |-> BoolVal(TRUE)], <<>>)
      [] label = "pc-spec-str-TRUE.yaml" ->
            PriorityClass([globalDefault |-> StrVal(<<"TRUE">>)], <<>>)
      [] label = "pc-spec-false.yaml" -> PriorityClass([globalDefault |-> BoolVal(FALSE)], <<>>)
      [] label = "csv-empty-minkube.yaml" ->
            Doc("ok", "ClusterServiceVersion", "empty", [minKubeVersion |-> ""], <<>>)
      [] label = "csv-no-spec.yaml" -> Doc("ok", "ClusterServiceVersion", "nospec", <<>>, <<>>)
      [] label = "hook-all-groups.yaml" ->
            WebhookCSV(<<Admission(<<WebhookRule(<<"*">>, <<"pods">>)>>)>>)
      [] label = "hook-olm-group.yaml" ->
            WebhookCSV(<<Admission(<<WebhookRule(<<"apps", "operators.coreos.com">>,
                                                  <<"pods">>)>>)>>)
      [] label = "hook-validating-config.yaml" ->
            WebhookCSV(<<Admission(<<WebhookRule(<<"apps">>,
                                                  <<"ValidatingWebhookConfigurations">>)>>)>>)
      [] label = "hook-mutating-config.yaml" ->
            WebhookCSV(<<Admission(<<WebhookRule(<<"apps">>,
                                                  <<"pods", "mutatingwebhookconfigurations">>)>>)>>)
      [] label = "hook-both-configs.yaml" ->
            WebhookCSV(<<Admission(<<WebhookRule(<<"apps">>,
                                                  <<"ValidatingWebhookConfigurations",
                                                    "MutatingWebhookConfigurations">>)>>)>>)
      [] label = "hook-harmless.yaml" ->
            WebhookCSV(<<Admission(<<WebhookRule(<<"apps">>, <<"pods">>)>>)>>)
      [] label = "hook-all-three.yaml" -> WebhookCSV(<<BusyWebhook("w1")>>)
      [] label = "hook-two-rules.yaml" ->
            WebhookCSV(<<Admission(<<WebhookRule(<<"*">>, <<"pods">>),
                                     WebhookRule(<<"apps">>, <<"pods">>),
                                     WebhookRule(<<"operators.coreos.com">>, <<"pods">>)>>)>>)
      [] label = "hook-two-webhooks.yaml" ->
            WebhookCSV(<<Admission(<<WebhookRule(<<"apps">>, <<"pods">>)>>),
                         BusyWebhook("w2")>>)
      [] label = "hook-conversion-only.yaml" ->
            WebhookCSV(<<Webhook("ConversionWebhook", "conv",
                                 <<WebhookRule(<<"*", "operators.coreos.com">>,
                                               <<"validatingwebhookconfigurations">>)>>,
                                 <<WidgetsCRDName>>)>>)
      [] label = "hook-none.yaml" -> WebhookCSV(<<>>)
      [] label = "modes-none.yaml" -> InstallCSV(1, <<>>)
      [] label = "modes-all.yaml" -> InstallCSV(1, <<InstallMode("AllNamespaces", TRUE)>>)
      [] label = "modes-all-false.yaml" ->
            InstallCSV(1, <<InstallMode("AllNamespaces", FALSE)>>)
      [] label = "modes-own.yaml" -> InstallCSV(1, <<InstallMode("OwnNamespace", TRUE)>>)
      [] label = "modes-own-all.yaml" ->
            InstallCSV(1, <<InstallMode("OwnNamespace", TRUE),
                            InstallMode("AllNamespaces", TRUE)>>)
      [] label = "modes-all-single.yaml" ->
            InstallCSV(1, <<InstallMode("AllNamespaces", TRUE),
                            InstallMode("SingleNamespace", TRUE)>>)
      [] label = "modes-all-own-false.yaml" ->
            InstallCSV(1, <<InstallMode("AllNamespaces", TRUE),
                            InstallMode("OwnNamespace", FALSE)>>)
      [] label = "modes-all-twice.yaml" ->
            InstallCSV(1, <<InstallMode("AllNamespaces", FALSE),
                            InstallMode("AllNamespaces", TRUE)>>)
      [] label = "two-conversions-none.yaml" -> InstallCSV(2, <<>>)
      [] label = "two-conversions-all.yaml" ->
            InstallCSV(2, <<InstallMode("AllNamespaces", TRUE)>>)
      [] label = "no-conversion-none.yaml" -> InstallCSV(0, <<>>)
      [] label = "no-conversion-own.yaml" ->
            InstallCSV(0, <<InstallMode("OwnNamespace", TRUE)>>)
      [] label = "crd-widgets-true.yaml" -> CRD("widgets", "example.com", <<TRUE>>)
      [] label = "crd-widgets-false.yaml" -> CRD("widgets", "example.com", <<FALSE>>)
      [] label = "crd-widgets-unset.yaml" -> CRD("widgets", "example.com", <<>>)
      [] label = "crd-gadgets-true.yaml" -> CRD("gadgets", "example.com", <<TRUE>>)
      [] label = "crd-widgets-other-group.yaml" -> CRD("widgets", "other.io", <<TRUE>>)
      [] label = "conv-widgets.yaml" ->
            WebhookCSV(<<Converting("ConversionWebhook", <<WidgetsCRDName>>)>>)
      [] label = "conv-widgets-gadgets.yaml" ->
            WebhookCSV(<<Converting("ConversionWebhook", <<WidgetsCRDName, GadgetsCRDName>>)>>)
      [] label = "conv-two-webhooks.yaml" ->
            WebhookCSV(<<Converting("ConversionWebhook", <<WidgetsCRDName>>),
                         Converting("ConversionWebhook", <<GadgetsCRDName>>)>>)
      [] label = "admission-lists-widgets.yaml" ->
            WebhookCSV(<<Converting("ValidatingAdmissionWebhook", <<WidgetsCRDName>>)>>)
      [] label = "conv-dangling.yaml" ->
            WebhookCSV(<<Converting("ConversionWebhook", <<MissingCRDName, WidgetsCRDName>>)>>)
      [] label = "conv-empty.yaml" -> WebhookCSV(<<Converting("ConversionWebhook", <<>>)>>)

\* the labels of RuleDocOf
RuleCatalog ==
    {"pdb-int-0.yaml", "pdb-float-0.yaml", "pdb-str-0.yaml", "pdb-str-0pct.yaml",
     "pdb-str-padded-0.yaml", "pdb-str-padded-0pct.yaml", "pdb-int-1.yaml",
     "pdb-str-1.yaml", "pdb-bool.yaml", "pdb-min-only.yaml", "pdb-no-spec.yaml",
     "deployment-int-0.yaml",
     "pc-top-false.yaml", "pc-absent.yaml", "pc-top-str-true.yaml", "pc-top-str-True.yaml",
     "pc-top-str-TRUE.yaml", "pc-spec-true.yaml", "pc-spec-str-TRUE.yaml",
     "pc-spec-false.yaml",
     "csv-empty-minkube.yaml", "csv-no-spec.yaml",
     "hook-all-groups.yaml", "hook-olm-group.yaml", "hook-validating-config.yaml",
     "hook-mutating-config.yaml", "hook-both-configs.yaml", "hook-harmless.yaml",
     "hook-all-three.yaml", "hook-two-rules.yaml", "hook-two-webhooks.yaml",
     "hook-conversion-only.yaml", "hook-none.yaml",
     "modes-none.yaml", "modes-all.yaml", "modes-all-false.yaml", "modes-own.yaml",
     "modes-own-all.yaml", "modes-all-single.yaml", "modes-all-own-false.yaml",
     "modes-all-twice.yaml", "two-conversions-none.yaml", "two-conversions-all.yaml",
     "no-conversion-none.yaml", "no-conversion-own.yaml",
     "crd-widgets-true.yaml", "crd-widgets-false.yaml", "crd-widgets-unset.yaml",
     "crd-gadgets-true.yaml", "crd-widgets-other-group.yaml",
     "conv-widgets.yaml", "conv-widgets-gadgets.yaml", "conv-two-webhooks.yaml",
     "admission-lists-widgets.yaml", "conv-dangling.yaml", "conv-empty.yaml"}

\* the directory entries of the model, by the label a directory listing of the
\* model names them with
EntryOf(label) ==
    CASE label = "clean-csv.yaml" -> Entry("yaml", CleanCSV)
      [] label = "bad-csv.yaml" -> Entry("yaml", BadCSV)
      [] label = "busy-csv.yaml" -> Entry("yaml", BusyCSV)
      [] label = "preserve-crd.yml" -> Entry("yml", PreserveCRD)
      [] label = "plain-crd.yaml" -> Entry("yaml", PlainCRD)
      [] label = "zero-pdb.yaml" -> Entry("yaml", ZeroPDB)
      [] label = "priorityclass.yaml" -> Entry("yaml", GlobalPriorityClass)
      [] label = "bare.yml" -> Entry("yml", BareDoc)
      [] label = "invalid.yaml" -> Entry("yaml", InvalidDoc)
      [] label = "clash-csv.yaml" -> Entry("yaml", ClashCSV)
      [] label = "notes.txt" -> Entry("txt", InvalidDoc)
      [] label = "unreadable.yaml" -> [Entry("yaml", BareDoc) EXCEPT !.readable = FALSE]
      [] label = "subdir.yaml" -> [Entry("yaml", InvalidDoc) EXCEPT !.isDir = TRUE]
      [] OTHER -> Entry("yaml", RuleDocOf(label))

\* the entries the directories of the model are drawn from
EntryCatalog ==
    {"clean-csv.yaml", "bad-csv.yaml", "preserve-crd.yml", "plain-crd.yaml",
     "zero-pdb.yaml", "priorityclass.yaml", "bare.yml", "invalid.yaml", "clash-csv.yaml",
     "notes.txt", "unreadable.yaml", "subdir.yaml"}

NoAnnotations == [state |-> "absent", channels |-> <<>>]

Annotations(channels) == [state |-> "ok", channels |-> channels]

\* metadata/annotations.yaml of the model, by label
AnnotationsOf(label) ==
    CASE label = "absent" -> NoAnnotations
      [] label = "unreadable" -> [state |-> "unreadable", channels |-> <<>>]
      [] label = "invalid" -> [state |-> "invalid", channels |-> <<>>]
      [] label = "no channels" -> Annotations(<<>>)
      [] label = "stable-v2, Stable" ->
            Annotations(<<"stable", "-v2", Comma, Space, "Stable">>)
      [] label = "foo,bar" -> Annotations(<<"foo", Comma, "bar">>)
      [] label = "fast," -> Annotations(<<"fast", Comma>>)
      [] label = "stable-v2,fast-v2" ->
            Annotations(<<"stable", "-v2", Comma, "fast", "-v2">>)
      [] label = "stable-v2,fast-v2," ->
            Annotations(<<"stable", "-v2", Comma, "fast", "-v2", Comma>>)
      [] label = " stable-v2 , fast-v2 " ->
            Annotations(<<Space, "stable", "-v2", Space, Comma, Space, "fast", "-v2", Space>>)
      [] label = "myapp-v2" -> Annotations(<<"myapp", "-v2">>)
      [] label = "FAST,Beta-1,candidate" ->
            Annotations(<<"FAST", Comma, "Beta", "-1", Comma, "candidate">>)
      [] label = "preview,myapp-v2,alpha,foo" ->
            Annotations(<<"preview", Comma, "myapp", "-v2", Comma, "alpha", Comma, "foo">>)
      [] label = "myapp-stable" -> Annotations(<<"myapp", "-", "stable">>)
      [] label = "foo,foo" -> Annotations(<<"foo", Comma, "foo">>)

AnnotationsCatalog ==
    {"absent", "unreadable", "invalid", "no channels", "stable-v2, Stable", "foo,bar",
     "fast,"}

\* a bundle directory: whether the root exists, the state of manifests/, the
\* annotations document and the listing of manifests/ in the order of os.ReadDir
Disk(manifestsDir, annotations, manifests) ==
    [root |-> TRUE, manifestsDir |-> manifestsDir, annotations |-> annotations,
     manifests |-> manifests]

\* a bundle path that does not exist
NoDisk == [root |-> FALSE, manifestsDir |-> "absent", annotations |-> "absent",
           manifests |-> <<>>]

EmptyDisk == Disk("ok", "absent", <<>>)

WarningsDisk == Disk("ok", "foo,bar", <<"plain-crd.yaml">>)

MixedDisk == Disk("ok", "foo,bar", <<"zero-pdb.yaml", "bad-csv.yaml", "preserve-crd.yml">>)

BusyDisk == Disk("ok", "absent", <<"busy-csv.yaml">>)

\* the bundle directories: every short manifests directory with and without
\* annotations; every annotations document and state of the manifests directory
\* with a fixed manifest; the fixed directories above
Disks ==
    {Disk("ok", a, m) : a \in {"absent", "foo,bar"}, m \in SeqsUpTo(EntryCatalog, MaxFiles)}
    \cup {Disk("ok", a, m) : a \in AnnotationsCatalog, m \in {<<>>, <<"bad-csv.yaml">>}}
    \cup {Disk(d, a, <<>>) : d \in {"absent", "unlistable"}, a \in AnnotationsCatalog}
    \cup {NoDisk, WarningsDisk, MixedDisk, BusyDisk}

\* the annotations documents the channel rule is exercised with
RuleAnnotations ==
    {"no channels", "stable-v2, Stable", "foo,bar", "fast,", "stable-v2,fast-v2",
     "stable-v2,fast-v2,", " stable-v2 , fast-v2 ", "myapp-v2", "FAST,Beta-1,candidate",
     "preview,myapp-v2,alpha,foo", "myapp-stable", "foo,foo", "invalid"}

\* the bundle directories the rules are exercised on: one document each, and a few
\* of two and three documents
RuleDisks ==
    {Disk("ok", "absent", <<label>>) :
        label \in RuleCatalog \cup {"clean-csv.yaml", "bad-csv.yaml", "zero-pdb.yaml",
                                     "priorityclass.yaml", "bare.yml"}}
    \cup {Disk("ok", "absent", m) :
             m \in {<<"pdb-int-0.yaml", "pdb-str-padded-0.yaml">>,
                    <<"deployment-int-0.yaml", "pdb-str-0pct.yaml", "pdb-int-1.yaml">>,
                    <<"bad-csv.yaml", "clean-csv.yaml">>,
                    <<"clean-csv.yaml", "csv-empty-minkube.yaml">>,
                    <<"pc-top-false.yaml", "priorityclass.yaml">>,
                    <<"modes-all.yaml", "modes-own.yaml">>,
                    <<"hook-all-three.yaml", "hook-two-rules.yaml">>,
                    <<"conv-widgets.yaml", "crd-widgets-true.yaml">>,
                    <<"crd-widgets-true.yaml", "conv-widgets.yaml">>,
                    <<"conv-widgets.yaml", "crd-widgets-false.yaml", "crd-gadgets-true.yaml">>,
                    <<"conv-widgets.yaml", "crd-widgets-unset.yaml">>,
                    <<"conv-widgets.yaml", "crd-widgets-other-group.yaml">>,
                    <<"conv-widgets-gadgets.yaml", "crd-widgets-true.yaml",
                      "crd-gadgets-true.yaml">>,
                    <<"conv-two-webhooks.yaml", "crd-gadgets-true.yaml",
                      "crd-widgets-true.yaml">>,
                    <<"admission-lists-widgets.yaml", "crd-widgets-true.yaml">>,
                    <<"conv-dangling.yaml", "crd-widgets-true.yaml">>,
                    <<"conv-dangling.yaml", "crd-gadgets-true.yaml">>,
                    <<"conv-empty.yaml", "crd-widgets-true.yaml">>}}
    \cup {Disk("ok", a, <<"bare.yml">>) : a \in RuleAnnotations}
    \cup {NoDisk}

\* the tokens of --enable and --disable: two registered IDs and one that is not
ArgTokens == {Comma, Space, "ODH-OLM-001", "ODH-OLM-002", "ODH-OLM-999"}

ArgStrings(n) == SeqsUpTo(ArgTokens, n)

\* the seeds of map iteration of the Go runtime
MapSeeds == {"seed1", "seed2"}

------------------------------------------------------------------------------
(* linters/errordemote: the analyzer                                        *)
(*                                                                           *)
(* Representation                                                            *)
(*   - an identifier and a comment text are sequences of tokens, chosen so   *)
(*     that every substring the analyzer searches for is a run of tokens     *)
(*   - a file is its comments and its if statements in preorder; an if       *)
(*     statement nested in another names its parent and the branch it is in  *)
(*   - a token.Pos is a pair <<file, line>>                                  *)

\* strings.Contains on token sequences
Contains(text, pattern) ==
    \E i \in 1..(Len(text) - Len(pattern) + 1) :
        SubSeq(text, i, i + Len(pattern) - 1) = pattern

\* ast.Ident, and an expression of another kind (a call, a selector expression)
Ident(name) == [kind |-> "ident", name |-> name]
OtherExpr(name) == [kind |-> "other", name |-> name]

\* ast.CallExpr as a statement; selector is whether Fun is a SelectorExpr, sel is
\* Sel.Name
Call(selector, sel) ==
    [kind |-> "call", selector |-> selector, sel |-> sel, results |-> <<>>]
\* ast.ReturnStmt
Return(results) ==
    [kind |-> "return", selector |-> FALSE, sel |-> "", results |-> results]

\* ast.AssignStmt in the init section; tok is ":=" or "=", rhs the call on the
\* right-hand side. NoInit is an if statement without init section
InitStmt(tok, lhs, rhs) == [kind |-> "assign", tok |-> tok, lhs |-> lhs, rhs |-> rhs]
NoInit == [kind |-> "none", tok |-> "", lhs |-> <<>>, rhs |-> Call(FALSE, "")]

\* ast.BinaryExpr, and a condition of another kind
BinaryExpr(x, op, y) == [kind |-> "binary", op |-> op, X |-> x, Y |-> y]
OtherCond == [kind |-> "other", op |-> "", X |-> Ident(<<"ok">>), Y |-> Ident(<<"ok">>)]

\* ast.IfStmt: its line, the if statement it is nested in (0: none) and the branch
\* of that statement, init, condition, the statements of the body and of the else
\* branch (else is <<>> when there is no else branch, <<statements>> otherwise)
IfStmt(line, parent, branch, init, cond, body, else) ==
    [line |-> line, parent |-> parent, branch |-> branch, init |-> init, cond |-> cond,
     body |-> body, else |-> else]

\* the nodes ast.Inspect visits below if statement i of ifs, calls and returns only:
\* init, both branches, and the if statements nested in it
RECURSIVE NodesOfIf(_, _)
\* the nodes ast.Inspect visits below ifStmt.Else of if statement i
NodesOfElse(ifs, i) ==
    (IF ifs[i].else = <<>> THEN {} ELSE Range(ifs[i].else[1]))
    \cup UNION {NodesOfIf(ifs, j) :
                   j \in {k \in (i + 1)..Len(ifs) : ifs[k].parent = i /\ ifs[k].branch = "else"}}

NodesOfIf(ifs, i) ==
    (IF ifs[i].init.kind = "assign" THEN {ifs[i].init.rhs} ELSE {})
    \cup Range(ifs[i].body)
    \cup NodesOfElse(ifs, i)
    \cup UNION {NodesOfIf(ifs, j) :
                   j \in {k \in (i + 1)..Len(ifs) : ifs[k].parent = i /\ ifs[k].branch = "body"}}

\* isNilIdent
isNilIdent(expr) == expr.kind = "ident" /\ expr.name = <<"nil">>

\* isErrCondition accepting nil as the right operand only
isErrCondition_NilOnRight(cond) ==
    /\ cond.kind = "binary"
    /\ cond.op \in {"==", "!="}
    /\ isNilIdent(cond.Y)
    /\ cond.X.kind = "ident" /\ Contains(cond.X.name, <<"err">>)

\* isErrCondition
isErrCondition(cond) ==
    /\ cond.kind = "binary"
    /\ cond.op \in {"==", "!="}
    /\ isNilIdent(cond.Y) \/ isNilIdent(cond.X)
    /\ \/ cond.X.kind = "ident" /\ Contains(cond.X.name, <<"err">>)
       \/ cond.Y.kind = "ident" /\ Contains(cond.Y.name, <<"err">>)

logMethods == {"Info", "Debug", "Warn", "Warning", "Trace", "V"}

\* containsLogCall on the nodes of a statement
containsLogCall(nodes) ==
    \E n \in nodes : n.kind = "call" /\ n.selector /\ n.sel \in logMethods

\* containsErrorReturn on the nodes of a statement
containsErrorReturn(nodes) ==
    \E n \in nodes :
        /\ n.kind = "return"
        /\ \E i \in 1..Len(n.results) :
              n.results[i].kind = "ident" /\ Contains(n.results[i].name, <<"err">>)

\* isErrorDemotionPattern on if statement i of ifs
isErrorDemotionPattern(ifs, i) ==
    LET ifStmt == ifs[i]
        lhs == ifStmt.init.lhs
    IN  /\ ifStmt.init.kind # "none"
        /\ ifStmt.init.kind = "assign" /\ ifStmt.init.tok = ":="
        /\ Len(lhs) >= 2
        /\ lhs[Len(lhs)].kind = "ident"
        /\ Contains(lhs[Len(lhs)].name, <<"err">>) \/ lhs[Len(lhs)].name = <<"_">>
        /\ isErrCondition(ifStmt.cond)
        /\ ifStmt.else # <<>>
        /\ containsLogCall(NodesOfElse(ifs, i)) /\ ~containsErrorReturn(NodesOfElse(ifs, i))

\* ast.Comment: the line it starts on and its text
Comment(line, text) == [line |-> line, text |-> text]

\* ast.File with its token.File: comments, if statements in preorder, line count
SourceFile(comments, ifs, lines) == [comments |-> comments, ifs |-> ifs, lines |-> lines]

\* analysis.Pass: Files, and the order in which the files were added to Fset
\* (a file added later has the higher base)
Pass(files, fset) == [Files |-> files, fset |-> fset]

\* the place of file f in the file set
BaseRank(p, f) == CHOOSE k \in 1..Len(p.fset) : p.fset[k] = f

\* token.File.Line of file f on a position <<g, line>>: a position outside the
\* file is moved to the nearest offset of the file, its first or its last line
FileLine(p, f, pos) ==
    IF pos[1] = f THEN pos[2]
    ELSE IF BaseRank(p, pos[1]) < BaseRank(p, f) THEN 1
    ELSE p.Files[f].lines

NolintRule == <<"nolint", ":", "errordemote">>

\* hasNolintComment
hasNolintComment(p, pos) ==
    LET line == FileLine(p, pos[1], pos)
        comments == p.Files[1].comments
    IN  \E i \in 1..Len(comments) :
            LET commentLine == FileLine(p, pos[1], <<1, comments[i].line>>)
                text == comments[i].text
            IN  /\ commentLine = line \/ commentLine = line - 1
                /\ \/ Contains(text, NolintRule)
                   \/ Contains(text, <<"nolint">>) /\ ~Contains(text, <<"nolint", ":">>)

keywords ==
    {<<"resilience", ":">>, <<"resilient", ":">>, <<"non-critical">>, <<"optional">>,
     <<"safe to ignore">>, <<"safe to continue">>, <<"safe default">>, <<"may not exist">>}

\* hasResilienceDoc with the line of the if statement inside its window
hasResilienceDoc_SameLine(p, pos) ==
    LET line == FileLine(p, pos[1], pos)
        comments == p.Files[1].comments
    IN  \E i \in 1..Len(comments) :
            LET commentLine == FileLine(p, pos[1], <<1, comments[i].line>>)
                text == [k \in 1..Len(comments[i].text) |-> ToLower(comments[i].text[k])]
            IN  /\ commentLine >= line - 3 /\ commentLine <= line
                /\ \E keyword \in keywords : Contains(text, keyword)

\* hasResilienceDoc
hasResilienceDoc(p, pos) ==
    LET line == FileLine(p, pos[1], pos)
        comments == p.Files[1].comments
    IN  \E i \in 1..Len(comments) :
            LET commentLine == FileLine(p, pos[1], <<1, comments[i].line>>)
                text == [k \in 1..Len(comments[i].text) |-> ToLower(comments[i].text[k])]
            IN  /\ commentLine >= line - 3 /\ commentLine < line
                /\ \E keyword \in keywords : Contains(text, keyword)

\* the if statements as inspector.Preorder hands them to run: <<file, index>>
IfNodes(p) ==
    Flatten([f \in 1..Len(p.Files) |-> [i \in 1..Len(p.Files[f].ifs) |-> <<f, i>>]])

\* ifStmt.Pos()
IfPos(p, node) == <<node[1], p.Files[node[1]].ifs[node[2]].line>>

\* run: the callback reports on the if statement node
Reports(p, node) ==
    /\ isErrorDemotionPattern(p.Files[node[1]].ifs, node[2])
    /\ ~hasNolintComment(p, IfPos(p, node))
    /\ ~hasResilienceDoc(p, IfPos(p, node))

\* analysis.Diagnostic: the if statement and its position
Diagnostic(p, node) == [file |-> node[1], stmt |-> node[2], line |-> IfPos(p, node)[2]]

\* the diagnostics of a whole run on the pass p
RECURSIVE RunFrom(_, _)
RunFrom(p, k) ==
    IF k > Len(IfNodes(p)) THEN <<>>
    ELSE (IF Reports(p, IfNodes(p)[k]) THEN <<Diagnostic(p, IfNodes(p)[k])>> ELSE <<>>)
         \o RunFrom(p, k + 1)

\* a new line holding the comment text is inserted into file f before line: what
\* was on that line or below moves down by one
InsertCommentLine(p, f, line, text) ==
    LET file == p.Files[f]
        down(l) == IF l >= line THEN l + 1 ELSE l
        moved == [i \in 1..Len(file.comments) |->
                     Comment(down(file.comments[i].line), file.comments[i].text)]
        above == SelectSeq(moved, LAMBDA c : c.line < line)
        below == SelectSeq(moved, LAMBDA c : c.line > line)
    IN  [p EXCEPT !.Files[f] =
            SourceFile(above \o <<Comment(line, text)>> \o below,
                       [i \in 1..Len(file.ifs) |->
                           [file.ifs[i] EXCEPT !.line = down(file.ifs[i].line)]],
                       file.lines + 1)]

------------------------------------------------------------------------------
(* The inputs of the analyzer: if statements, comments, packages *)

\* identifiers
Err == Ident(<<"err">>)
Nil == Ident(<<"nil">>)
Value == Ident(<<"value">>)

\* value, err := getConfig(ctx, cli)
CanonicalInit == InitStmt(":=", <<Value, Err>>, Call(FALSE, ""))

Inits ==
    {NoInit, CanonicalInit,
     InitStmt(":=", <<Err>>, Call(FALSE, "")),
     InitStmt(":=", <<Value, Ident(<<"_">>)>>, Call(FALSE, "")),
     InitStmt(":=", <<Value, Ident(<<"ok">>)>>, Call(FALSE, "")),
     InitStmt(":=", <<Value, Ident(<<"lookup", "err">>)>>, Call(TRUE, "Get")),
     InitStmt(":=", <<Err, Value>>, Call(FALSE, "")),
     InitStmt("=", <<Value, Err>>, Call(FALSE, ""))}

ErrIsNil == BinaryExpr(Err, "==", Nil)
ErrNotNil == BinaryExpr(Err, "!=", Nil)

Conds ==
    {ErrIsNil, ErrNotNil, BinaryExpr(Nil, "==", Err), BinaryExpr(Nil, "!=", Err),
     BinaryExpr(Ident(<<"lookup", "err">>), "==", Nil),
     OtherCond,
     BinaryExpr(Ident(<<"ok">>), "==", Nil),
     BinaryExpr(Nil, "==", Nil),
     BinaryExpr(OtherExpr(<<"obj.", "err">>), "==", Nil),
     BinaryExpr(Err, "==", Ident(<<"other">>)),
     BinaryExpr(OtherExpr(<<"len(", "err", "s)">>), ">", OtherExpr(<<"0">>))}

\* the statements of a branch
UseValue == <<Call(FALSE, "")>>
LogInfo == <<Call(TRUE, "Info")>>
ReturnErr == <<Return(<<Err>>)>>

Elses ==
    {<<>>, <<LogInfo>>, <<UseValue>>, <<ReturnErr>>,
     <<<<Call(TRUE, "Error")>>>>,
     <<<<Call(FALSE, "Info")>>>>,
     <<<<Call(TRUE, "V")>>>>,
     <<<<Call(TRUE, "Warning")>>>>,
     <<LogInfo \o ReturnErr>>,
     <<LogInfo \o <<Return(<<Nil>>)>>>>,
     <<LogInfo \o <<Return(<<Value, Ident(<<"lookup", "err">>)>>)>>>>,
     <<LogInfo \o <<Return(<<OtherExpr(<<"wrap(", "err", ")">>)>>)>>>>}

Bodies == {UseValue, LogInfo, ReturnErr}

\* the comment texts
NolintErrordemote == <<"//", "nolint", ":", "errordemote">>
NolintBare == <<"//", "nolint">>
NolintListLast == <<"//", "nolint", ":", "typeassert", ",", "errordemote">>
NolintListFirst == <<"//", "nolint", ":", "errordemote", ",", "typeassert">>
NolintOther == <<"//", "nolint", ":", "typeassert">>
NolintJustified ==
    <<"//", "nolint", ":", "errordemote", " ", "//", " ", "ConfigMap ", "may not exist">>
ResilienceNote == <<"//", " ", "RESILIENCE", ":", " ", "best effort">>
OptionalNote == <<"//", " ", "Optional", " ", "feature">>
PlainNote == <<"//", " ", "fetch the config">>
MentionsNolint == <<"//", " ", "see the ", "nolint", " ", "guide">>

Texts ==
    {NolintErrordemote, NolintBare, NolintListLast, NolintListFirst, NolintOther,
     NolintJustified, ResilienceNote, OptionalNote, PlainNote, MentionsNolint}

\* the comments a developer adds to silence a diagnostic: directives and
\* justifications
DirectiveTexts == {NolintErrordemote, NolintBare}
JustificationTexts == {ResilienceNote, OptionalNote}
InsertedTexts == DirectiveTexts \cup JustificationTexts \cup {NolintJustified}

\* the line of the first if statement of a file: the windows above it are in the file
FirstIfLine == MaxGap + 1

\* the example of the README: the error is logged in the else branch
Demoting(line, parent, branch) ==
    IfStmt(line, parent, branch, CanonicalInit, ErrIsNil, UseValue, <<LogInfo>>)

\* a file of one if statement, without comments
OneIf(init, cond, body, else) ==
    SourceFile(<<>>, <<IfStmt(FirstIfLine, 0, "", init, cond, body, else)>>, FirstIfLine + 2)

\* a package of one file
Single(file) == Pass(<<file>>, <<1>>)

\* every shape of if statement
ShapePasses ==
    {Single(OneIf(init, cond, UseValue, else)) : init \in Inits, cond \in Conds, else \in Elses}
    \cup {Single(OneIf(CanonicalInit, cond, body, else)) :
             cond \in {ErrIsNil, ErrNotNil}, body \in Bodies, else \in Elses}

\* the README example with one comment, from MaxGap lines above it to the line below
CommentPasses ==
    {Single(SourceFile(<<Comment(line, text)>>, <<Demoting(FirstIfLine, 0, "")>>,
                       FirstIfLine + 2)) :
        line \in 1..(FirstIfLine + 1), text \in Texts}

\* two demoting if statements next to each other: the second one follows the first
\* or is nested in it, gap lines below; with or without a comment in between
PairPasses ==
    {Single(SourceFile(comments,
                       <<Demoting(FirstIfLine, 0, ""),
                         Demoting(FirstIfLine + gap, nest[1], nest[2])>>,
                       FirstIfLine + gap + 2)) :
        gap \in 1..MaxGap,
        nest \in {<<0, "">>, <<1, "else">>, <<1, "body">>},
        comments \in {<<>>, <<Comment(FirstIfLine + 1, PlainNote)>>,
                      <<Comment(FirstIfLine - 1, NolintErrordemote)>>}}

\* a package of two files: comments in both, the if statement in either
TwoFilePasses ==
    {Pass(<<SourceFile(<<Comment(line, text)>>, ifs1, FirstIfLine + 2),
            SourceFile(<<Comment(FirstIfLine - 1, text2)>>,
                       <<Demoting(FirstIfLine, 0, "")>>, FirstIfLine + 2)>>, fset) :
        line \in {1, FirstIfLine - 1, FirstIfLine + 2},
        text \in {NolintErrordemote, PlainNote},
        text2 \in {NolintErrordemote, PlainNote},
        ifs1 \in {<<>>, <<Demoting(FirstIfLine, 0, "")>>},
        fset \in {<<1, 2>>, <<2, 1>>}}

Passes == ShapePasses \cup CommentPasses \cup PairPasses \cup TwoFilePasses

------------------------------------------------------------------------------
(* linters/errordemote: one run of the analyzer, an edit, and a second run *)

\* the registry is not being queried
RegistryIdle ==
    /\ query = ""
    /\ looked = FALSE
    /\ found = <<>>
    /\ listing = <<>>

\* no analysis is under way
LintIdle ==
    /\ pass = Pass(<<>>, <<>>)
    /\ runpc = "idle"
    /\ visited = 0
    /\ diagnostics = <<>>
    /\ edited = <<>>

\* odhlint-bundle is not run
BundleIdle ==
    /\ fs = NoDisk
    /\ enable = <<>>
    /\ disable = <<>>
    /\ noWarnings = FALSE
    /\ stdoutFails = FALSE
    /\ mapSeed = "seed1"
    /\ pc = "idle"
    /\ bundle = <<>>
    /\ loadErr = <<>>
    /\ rulesToRun = <<>>
    /\ validated = <<>>
    /\ violations = <<>>
    /\ stdout = <<>>
    /\ stderr = <<>>
    /\ exitCode = <<>>
    /\ firstRun = <<>>

LintInit ==
    /\ pass \in Passes
    /\ runpc = "preorder"
    /\ visited = 0
    /\ diagnostics = <<>>
    /\ edited = <<>>
    /\ BundleIdle
    /\ RegistryIdle

\* run: the callback of inspector.Preorder reports the next if statement
RunReport ==
    /\ runpc = "preorder"
    /\ visited < Len(IfNodes(pass))
    /\ Reports(pass, IfNodes(pass)[visited + 1])
    /\ diagnostics' = Append(diagnostics, Diagnostic(pass, IfNodes(pass)[visited + 1]))
    /\ visited' = visited + 1
    /\ UNCHANGED <<bundleVars, registryVars, pass, runpc, edited>>

\* run: the callback returns without a report: no pattern, or a suppressed one
RunSkip ==
    /\ runpc = "preorder"
    /\ visited < Len(IfNodes(pass))
    /\ ~Reports(pass, IfNodes(pass)[visited + 1])
    /\ visited' = visited + 1
    /\ UNCHANGED <<bundleVars, registryVars, pass, runpc, diagnostics, edited>>

\* run: Preorder is through, run returns
RunReturn ==
    /\ runpc = "preorder"
    /\ visited = Len(IfNodes(pass))
    /\ runpc' = "returned"
    /\ UNCHANGED <<bundleVars, registryVars, pass, visited, diagnostics, edited>>

\* the developer puts a directive or a justification on a new line right above a
\* reported if statement, and the analyzer is run again
InsertComment ==
    /\ runpc = "returned"
    /\ edited = <<>>
    /\ \E k \in 1..Len(diagnostics), text \in InsertedTexts :
          /\ pass' = InsertCommentLine(pass, diagnostics[k].file, diagnostics[k].line, text)
          /\ edited' = <<[diagnostics |-> diagnostics, target |-> diagnostics[k],
                          text |-> text]>>
    /\ runpc' = "preorder"
    /\ visited' = 0
    /\ diagnostics' = <<>>
    /\ UNCHANGED <<bundleVars, registryVars>>

LintNext ==
    \/ RunReport
    \/ RunSkip
    \/ RunReturn
    \/ InsertComment

LintSpec == LintInit /\ [][LintNext]_vars

------------------------------------------------------------------------------
(* Callers of the rule registry *)

\* the ids the registry is asked for: the registered ones, and others
QueryIDs ==
    Range(GetAllRules)
    \cup {"", "ODH-OLM-000", "ODH-OLM-008", "ODH-OLM-009", "ODH-OLM-011", "ODH-OLM-999",
          "odh-olm-001", "minkubeversion-required"}

RegistryInit ==
    /\ query \in QueryIDs
    /\ looked = FALSE
    /\ found = <<>>
    /\ listing = <<>>
    /\ LintIdle
    /\ BundleIdle

\* a call of GetRuleByID
Lookup ==
    /\ ~looked
    /\ found' = GetRuleByID(query)
    /\ looked' = TRUE
    /\ UNCHANGED <<query, listing, lintVars, bundleVars>>

\* a call of GetAllRules
ListRules ==
    /\ Len(listing) < MaxCalls
    /\ listing' = Append(listing, GetAllRules)
    /\ UNCHANGED <<query, looked, found, lintVars, bundleVars>>

RegistryNext == Lookup \/ ListRules

RegistrySpec == RegistryInit /\ [][RegistryNext]_vars

------------------------------------------------------------------------------
(* cmd/odhlint-bundle/main.go: one run of main, and a second run on the same input *)

\* an exit code that lets warnings fail the run unless --no-warnings is given
ExitStatus_WarningsFail(vs, noWarn) ==
    LET code == IF hasErrors(vs) THEN 1
                ELSE IF ~noWarn /\ hasWarnings(vs) THEN 1
                ELSE 0
    IN  IF ReportSummary(vs).failed /\ code = 0 THEN 1 ELSE code

\* the exit code main derives once Report has returned nil
ExitStatus(vs, noWarn) ==
    LET code == IF hasErrors(vs) THEN 1
                ELSE IF ~noWarn /\ hasWarnings(vs) THEN 0
                ELSE 0
    IN  IF ReportSummary(vs).failed /\ code = 0 THEN 1 ELSE code

\* what reaches os.Stdout
Written(lines) == IF stdoutFails THEN <<>> ELSE lines

Inputs == <<fs, enable, disable, noWarnings, stdoutFails>>

\* the directory fs with its labels resolved
OnDisk ==
    [root |-> fs.root, manifestsDir |-> fs.manifestsDir,
     annotations |-> AnnotationsOf(fs.annotations),
     manifests |-> [i \in 1..Len(fs.manifests) |-> EntryOf(fs.manifests[i])]]

\* the inputs: every pair of short arguments on one bundle; every bundle directory
\* with the default arguments; the flags and a failing stdout on a few bundles
Init ==
    /\ \/ /\ fs = MixedDisk
          /\ enable \in ArgStrings(MaxArgLen)
          /\ disable \in ArgStrings(MaxArgLen - Len(enable))
          /\ noWarnings = FALSE
          /\ stdoutFails = FALSE
       \/ /\ fs \in Disks
          /\ enable = <<>>
          /\ disable = <<>>
          /\ noWarnings = FALSE
          /\ stdoutFails = FALSE
       \/ /\ fs \in {NoDisk, WarningsDisk, MixedDisk, EmptyDisk}
          /\ enable = <<>>
          /\ disable \in {<<>>, <<"ODH-OLM-007">>}
          /\ noWarnings \in BOOLEAN
          /\ stdoutFails \in BOOLEAN
    /\ LintIdle
    /\ RegistryIdle
    /\ mapSeed = "seed1"
    /\ pc = "start"
    /\ bundle = <<>>
    /\ loadErr = <<>>
    /\ rulesToRun = <<>>
    /\ validated = <<>>
    /\ violations = <<>>
    /\ stdout = <<>>
    /\ stderr = <<>>
    /\ exitCode = <<>>
    /\ firstRun = <<>>

\* main: loader.LoadBundle fails, the error goes to stderr, exit status 1
MainLoadFail ==
    /\ pc = "start"
    /\ LET r == LoadBundle(OnDisk)
       IN  /\ r.err # <<>>
           /\ loadErr' = r.err
           /\ bundle' = r.bundle
    /\ stdout' = stdout \o Written(<<Line("Loading bundle from", 0, 0, <<>>)>>)
    /\ stderr' = Append(stderr, "Error loading bundle")
    /\ exitCode' = <<1>>
    /\ pc' = "exited"
    /\ UNCHANGED <<lintVars, registryVars, Inputs, mapSeed, rulesToRun, validated,
                   violations, firstRun>>

\* main: loader.LoadBundle succeeds
MainLoadOk ==
    /\ pc = "start"
    /\ LET r == LoadBundle(OnDisk)
       IN  /\ r.err = <<>>
           /\ bundle' = r.bundle
    /\ stdout' = stdout \o Written(<<Line("Loading bundle from", 0, 0, <<>>)>>)
    /\ pc' = "loaded"
    /\ UNCHANGED <<lintVars, registryVars, Inputs, mapSeed, loadErr, rulesToRun, validated,
                   violations, stderr, exitCode, firstRun>>

\* main: selectRules
MainSelect ==
    /\ pc = "loaded"
    /\ rulesToRun' = selectRules(enable, disable)
    /\ stdout' = stdout \o Written(<<Line("Running validation rule(s)",
                                          Len(selectRules(enable, disable)), 0, <<>>)>>)
    /\ pc' = "selected"
    /\ UNCHANGED <<lintVars, registryVars, Inputs, mapSeed, bundle, loadErr, validated,
                   violations, stderr, exitCode, firstRun>>

\* main: rules.ValidateBundle; a panic ends the process with status 2
MainValidate ==
    /\ pc = "selected"
    /\ LET r == ValidateBundle(bundle[1], rulesToRun)
       IN  /\ validated' = r.called
           /\ violations' = r.violations
           /\ IF r.panicked
              THEN /\ stderr' = Append(stderr, "panic: nil pointer dereference")
                   /\ exitCode' = <<2>>
                   /\ pc' = "exited"
              ELSE /\ pc' = "validated"
                   /\ UNCHANGED <<stderr, exitCode>>
    /\ UNCHANGED <<lintVars, registryVars, Inputs, mapSeed, bundle, loadErr, rulesToRun,
                   stdout, firstRun>>

\* main: Reporter.Report, the exit code, Reporter.ReportSummary, os.Exit. Report
\* returns an error only when the line for an empty list cannot be written
MainReport ==
    /\ pc = "validated"
    /\ IF Len(violations) = 0 /\ stdoutFails
       THEN /\ stderr' = Append(stderr, "Error reporting results")
            /\ exitCode' = <<1>>
            /\ UNCHANGED <<violations, stdout>>
       ELSE LET r == Report(violations)
            IN  /\ violations' = r.violations
                /\ stdout' = stdout \o Written(r.out \o ReportSummary(r.violations).out)
                /\ exitCode' = <<ExitStatus(r.violations, noWarnings)>>
                /\ UNCHANGED stderr
    /\ pc' = "exited"
    /\ UNCHANGED <<lintVars, registryVars, Inputs, mapSeed, bundle, loadErr, rulesToRun,
                   validated, firstRun>>

\* the outcome of a run
Outcome ==
    [violations |-> violations, stdout |-> stdout, stderr |-> stderr, exitCode |-> exitCode]

\* the same command is run once more on the same directory: a new process, with a
\* map seed of its own
Rerun ==
    /\ pc = "exited"
    /\ firstRun = <<>>
    /\ firstRun' = <<Outcome>>
    /\ mapSeed' \in MapSeeds
    /\ pc' = "start"
    /\ bundle' = <<>>
    /\ loadErr' = <<>>
    /\ rulesToRun' = <<>>
    /\ validated' = <<>>
    /\ violations' = <<>>
    /\ stdout' = <<>>
    /\ stderr' = <<>>
    /\ exitCode' = <<>>
    /\ UNCHANGED <<lintVars, registryVars, Inputs>>

Next ==
    \/ MainLoadFail
    \/ MainLoadOk
    \/ MainSelect
    \/ MainValidate
    \/ MainReport
    \/ Rerun

Spec == Init /\ [][Next]_vars

\* the inputs of the runs that exercise the rules: a bundle directory, and all
\* rules or one rule enabled
RulesInit ==
    /\ fs \in RuleDisks
    /\ enable \in {<<>>} \cup {<<GetAllRules[i]>> : i \in 1..Len(GetAllRules)}
    /\ disable = <<>>
    /\ noWarnings = FALSE
    /\ stdoutFails = FALSE
    /\ LintIdle
    /\ RegistryIdle
    /\ mapSeed = "seed1"
    /\ pc = "start"
    /\ bundle = <<>>
    /\ loadErr = <<>>
    /\ rulesToRun = <<>>
    /\ validated = <<>>
    /\ violations = <<>>
    /\ stdout = <<>>
    /\ stderr = <<>>
    /\ exitCode = <<>>
    /\ firstRun = <<>>

RulesSpec == RulesInit /\ [][Next]_vars

------------------------------------------------------------------------------
(* Properties *)

\* the run got past the load and main returned through os.Exit after the report
Reported == pc = "exited" /\ loadErr = <<>> /\ exitCode # <<2>>

\* the enable-set and the disable-set: the trimmed, non-blank, comma-separated IDs
EnableSet == parseRuleList(enable)
DisableSet == parseRuleList(disable)

\* the IDs of the registry, as strings of one word
RegistryIDs == {<<GetAllRules[i]>> : i \in 1..Len(GetAllRules)}

\* s lists each of its elements once, in registry order
InRegistryOrder(s) ==
    \A i, j \in 1..Len(s) :
        i < j => \E k, l \in 1..Len(GetAllRules) :
                    k < l /\ GetAllRules[k] = s[i] /\ GetAllRules[l] = s[j]

\* the argument strings the selection of a state is compared with
ArgProbes == ArgStrings(MaxArgLen - 1)

\* C1: when the bundle loads and the report is written without I/O error, the exit
\* status is non-zero iff the final violation list holds a violation of severity
\* Error, and hasErrors and the error of ReportSummary agree.
C1_ExitStatusIffError ==
    (Reported /\ ~stdoutFails) =>
        /\ (exitCode # <<0>>) <=>
               (\E i \in 1..Len(violations) : violations[i].Severity = SeverityError)
        /\ hasErrors(violations) <=> ReportSummary(violations).failed

\* a run that reported warnings only and exited with status 0
C1_Witness ==
    /\ Reported /\ ~stdoutFails /\ exitCode = <<0>>
    /\ violations # <<>>
    /\ \A i \in 1..Len(violations) : violations[i].Severity = SeverityWarning

\* C2: with a non-empty enable-set E the active rule list holds exactly the registry
\* rules whose ID is in E, each once and in registry order, whatever --disable is;
\* a rule named in both sets is active.
C2_EnableSetSelects ==
    (pc = "selected" /\ EnableSet # {}) =>
        /\ {<<rulesToRun[i]>> : i \in 1..Len(rulesToRun)} = RegistryIDs \cap EnableSet
        /\ InRegistryOrder(rulesToRun)
        /\ \A d \in ArgProbes \cup {enable} : selectRules(enable, d) = rulesToRun

\* rules were selected by an enable-set that names a rule the disable-set names too
C2_Witness ==
    /\ pc = "selected"
    /\ EnableSet \cap DisableSet \cap RegistryIDs # {}
    /\ Len(rulesToRun) > 0

\* C3: with an empty enable-set (also when --enable holds only commas or spaces) the
\* active rules are the registry without the rules of the disable-set; with both
\* sets empty all 8 rules are active.
C3_EmptyEnableSetSelectsAllButDisabled ==
    (pc = "selected" /\ EnableSet = {}) =>
        /\ {<<rulesToRun[i]>> : i \in 1..Len(rulesToRun)} = RegistryIDs \ DisableSet
        /\ InRegistryOrder(rulesToRun)
        /\ DisableSet = {} => Len(rulesToRun) = 8

\* the known part of a set of IDs
Known(ids) == ids \cap RegistryIDs

\* C4 as claimed: an ID that matches no registry rule, added to or removed from
\* either set, never changes the active rule set.
C4_UnknownIDsNeverChangeSelection ==
    pc = "selected" =>
        LET knownEnabled == Known(EnableSet)
            knownDisabled == Known(DisableSet)
        IN  /\ \A e \in ArgProbes :
                  Known(parseRuleList(e)) = knownEnabled => selectRules(e, disable) = rulesToRun
            /\ \A d \in ArgProbes :
                  Known(parseRuleList(d)) = knownDisabled => selectRules(enable, d) = rulesToRun

\* C4 as amended: unknown IDs added to or removed from the disable-set never change
\* the active rules (the --enable argument being the same); added to or removed from
\* an enable-set that is non-empty before and after, they never change them either.
C4_UnknownIDsIgnored ==
    pc = "selected" =>
        LET knownEnabled == Known(EnableSet)
            knownDisabled == Known(DisableSet)
        IN  /\ EnableSet # {} =>
                  \A e \in ArgProbes :
                      LET probed == parseRuleList(e)
                      IN  (probed # {} /\ Known(probed) = knownEnabled)
                             => selectRules(e, disable) = rulesToRun
            /\ \A d \in ArgProbes :
                  Known(parseRuleList(d)) = knownDisabled => selectRules(enable, d) = rulesToRun

\* rules were selected with an unregistered ID beside a registered one in --enable
C4_Witness ==
    /\ pc = "selected"
    /\ Known(EnableSet) # {} /\ EnableSet \ RegistryIDs # {}
    /\ Len(rulesToRun) > 0

\* the violations of the report blocks on stdout, in the order written
ReportedViolations ==
    LET blocks == SelectSeq(stdout, LAMBDA l : l.kind = "violation")
    IN  [i \in 1..Len(blocks) |-> blocks[i].v[1]]

\* Error > Warning > Info
SeverityRank(sev) ==
    CASE sev = "error" -> 3
      [] sev = "warning" -> 2
      [] sev = "info" -> 1

\* C5: after Report ran on a non-empty list the reported sequence is ordered by
\* severity descending, then file path ascending, then rule ID ascending, for every
\* adjacent pair.
C5_ReportOrdered ==
    (Reported /\ ~stdoutFails /\ violations # <<>>) =>
        /\ ReportedViolations = violations
        /\ \A i \in 1..(Len(violations) - 1) :
              LET a == violations[i]
                  b == violations[i + 1]
              IN  /\ SeverityRank(a.Severity) >= SeverityRank(b.Severity)
                  /\ a.Severity = b.Severity => ~PathLess(b.File, a.File)
                  /\ (a.Severity = b.Severity /\ a.File = b.File)
                        => ~RuleIDLess(b.RuleID, a.RuleID)

\* a report of violations of both severities, of several files and several rules
C5_Witness ==
    /\ Reported /\ ~stdoutFails
    /\ Cardinality({violations[i].Severity : i \in 1..Len(violations)}) > 1
    /\ Cardinality({violations[i].File : i \in 1..Len(violations)}) > 2
    /\ Cardinality({violations[i].RuleID : i \in 1..Len(violations)}) > 3

\* x and y agree on the three sort keys
Tie(x, y) == x.Severity = y.Severity /\ x.File = y.File /\ x.RuleID = y.RuleID

Reverse(s) == [i \in 1..Len(s) |-> s[Len(s) + 1 - i]]
Rotations(s) == {SubSeq(s, k, Len(s)) \o SubSeq(s, 1, k - 1) : k \in 1..Len(s)}
RuleOrders(s) == {s, Reverse(s)} \cup Rotations(s)

\* the place of violation x in the slice vs
Place(vs, x) == CHOOSE i \in 1..Len(vs) : vs[i] = x

\* C7: for a fixed bundle and active rule set the reported sequence is the same for
\* every order in which the active rules run, and violations that tie on (severity,
\* file, rule ID) keep the order in which their rule produced them.
C7_StableAndOrderIndependent ==
    (Reported /\ ~stdoutFails) =>
        /\ \A order \in RuleOrders(rulesToRun) :
              Report(ValidateBundle(bundle[1], order).violations).violations = violations
        /\ LET produced == ValidateBundle(bundle[1], rulesToRun).violations
           IN  \A i, j \in 1..Len(violations) :
                  (i < j /\ Tie(violations[i], violations[j]))
                     => Place(produced, violations[i]) < Place(produced, violations[j])

\* the directory entries LoadBundle reads: the regular files named .yaml or .yml
YAMLFiles ==
    {i \in 1..Len(fs.manifests) :
        ~EntryOf(fs.manifests[i]).isDir /\ EntryOf(fs.manifests[i]).suffix \in {"yaml", "yml"}}

\* a stage of the load fails on the directory fs
SomeStageFails ==
    \/ ~fs.root
    \/ AnnotationsOf(fs.annotations).state \in {"unreadable", "invalid"}
    \/ fs.manifestsDir # "ok"
    \/ \E i \in YAMLFiles :
          ~EntryOf(fs.manifests[i]).readable \/ EntryOf(fs.manifests[i]).doc.shape # "ok"

\* C8: if any stage of LoadBundle fails, it returns an error and no Bundle, the
\* process exits with a non-zero status, no rule runs and no report is written; a
\* Bundle is returned only when every stage succeeded.
C8_LoadAllOrNothing ==
    /\ (SomeStageFails /\ pc # "start") =>
          /\ pc = "exited" /\ loadErr # <<>> /\ bundle = <<>>
          /\ exitCode # <<>> /\ exitCode # <<0>>
          /\ validated = <<>> /\ violations = <<>>
          /\ \A i \in 1..Len(stdout) : stdout[i].kind = "Loading bundle from"
    /\ bundle # <<>> => ~SomeStageFails

\* a load that failed on the second manifest, after a first one that decodes
C8_Witness ==
    /\ pc = "exited" /\ loadErr # <<>>
    /\ Len(fs.manifests) > 1
    /\ 1 \in YAMLFiles /\ EntryOf(fs.manifests[1]).doc.shape = "ok"
    /\ 2 \in YAMLFiles /\ EntryOf(fs.manifests[2]).doc.shape # "ok"

\* the YAML files of kind k (of any other kind when k is "")
FilesOfKind(k) ==
    LET kindOf(i) == EntryOf(fs.manifests[i]).doc.kind
        routed(i) == IF kindOf(i) \in {"ClusterServiceVersion", "CustomResourceDefinition"}
                     THEN kindOf(i) ELSE ""
    IN  SelectSeq([i \in 1..Len(fs.manifests) |-> i],
                  LAMBDA i : i \in YAMLFiles /\ routed(i) = k)

\* the resources of the loaded bundle are the files, in directory order
DecodedFrom(resources, files) ==
    /\ Len(resources) = Len(files)
    /\ \A k \in 1..Len(files) :
          /\ resources[k].FilePath = ManifestPath(files[k])
          /\ resources[k].Name = EntryOf(fs.manifests[files[k]]).doc.name

\* C9: after a successful load every YAML file of the manifests directory is in
\* exactly one place: the last file of the primary kind is Bundle.CSV, the files of
\* the auxiliary kind are CRDs, the others (a missing kind too) OtherResources, each
\* in directory order.
C9_ManifestsRouted ==
    bundle # <<>> =>
        LET b == bundle[1]
            primary == FilesOfKind("ClusterServiceVersion")
        IN  /\ DecodedFrom(b.CRDs, FilesOfKind("CustomResourceDefinition"))
            /\ DecodedFrom(b.OtherResources, FilesOfKind(""))
            /\ \A k \in 1..Len(b.OtherResources) :
                  b.OtherResources[k].Kind \notin {"ClusterServiceVersion",
                                                   "CustomResourceDefinition"}
            /\ (b.CSV = <<>>) <=> (primary = <<>>)
            /\ primary # <<>> => DecodedFrom(b.CSV, <<primary[Len(primary)]>>)
            /\ Len(b.CRDs) + Len(b.OtherResources) + Len(primary) = Cardinality(YAMLFiles)

\* a bundle loaded from a directory with two different ClusterServiceVersion files
C9_Witness ==
    /\ bundle # <<>>
    /\ Len(FilesOfKind("ClusterServiceVersion")) > 1
    /\ fs.manifests[1] # fs.manifests[2]

\* C10: for every bundle the loader returns, each of the 8 rules returns without
\* a nil dereference; without a CSV the rules 001, 002, 003 and 010 return no
\* violation, without annotations the rule 007 returns none.
C10_AbsenceIsNoFault ==
    /\ bundle # <<>> =>
          /\ \A i \in 1..Len(GetAllRules) : ~Validate(GetAllRules[i], bundle[1]).panicked
          /\ bundle[1].CSV = <<>> =>
                \A id \in {"ODH-OLM-001", "ODH-OLM-002", "ODH-OLM-003", "ODH-OLM-010"} :
                    Validate(id, bundle[1]).violations = <<>>
          /\ bundle[1].Annotations = <<>> =>
                Validate("ODH-OLM-007", bundle[1]).violations = <<>>
    /\ exitCode # <<2>>
    /\ pc \in {"validated", "exited"} /\ loadErr = <<>> => validated = rulesToRun

\* all rules ran on a bundle without CSV, CRDs and annotations whose only resource
\* has no spec
C10_Witness ==
    /\ pc = "validated" /\ Len(validated) = Len(GetAllRules)
    /\ bundle[1].CSV = <<>> /\ bundle[1].CRDs = <<>> /\ bundle[1].Annotations = <<>>
    /\ Len(bundle[1].OtherResources) = 1
    /\ DOMAIN bundle[1].OtherResources[1].Spec = {}

\* the analyzer has returned
Returned == runpc = "returned"

\* the number of diagnostics reported for the if statement node
DiagnosticCount(node) ==
    Cardinality({k \in 1..Len(diagnostics) :
                    diagnostics[k].file = node[1] /\ diagnostics[k].stmt = node[2]})

\* the name is error-like
ErrorLike(expr) == expr.kind = "ident" /\ \E k \in 1..Len(expr.name) : expr.name[k] = "err"

\* the six conditions of the detector on the if statement node
SixConditions(node) ==
    LET ifs == pass.Files[node[1]].ifs
        stmt == ifs[node[2]]
        alternative == NodesOfElse(ifs, node[2])
    IN  /\ stmt.init.kind = "assign" /\ stmt.init.tok = ":=" /\ Len(stmt.init.lhs) >= 2
        /\ LET last == stmt.init.lhs[Len(stmt.init.lhs)]
           IN  ErrorLike(last) \/ last = Ident(<<"_">>)
        /\ stmt.cond.kind = "binary" /\ stmt.cond.op \in {"==", "!="}
        /\ \/ stmt.cond.X = Ident(<<"nil">>) /\ ErrorLike(stmt.cond.Y)
           \/ stmt.cond.Y = Ident(<<"nil">>) /\ ErrorLike(stmt.cond.X)
        /\ stmt.else # <<>>
        /\ \E n \in alternative :
              /\ n.kind = "call" /\ n.selector
              /\ n.sel \in {"Info", "Debug", "Warn", "Warning", "Trace", "V"}
        /\ ~\E n \in alternative :
              n.kind = "return" /\ \E k \in 1..Len(n.results) : ErrorLike(n.results[k])

\* Scenario 1, and Scenario 2 with and without the log call
Scenario1 == Single(OneIf(CanonicalInit, ErrIsNil, UseValue, <<LogInfo>>))
Scenario2 ==
    {Single(OneIf(CanonicalInit, ErrIsNil, UseValue, else)) :
        else \in {<<ReturnErr>>, <<LogInfo \o ReturnErr>>}}

\* C11: an if statement is matched iff the six conditions hold; a matching if
\* statement that is not suppressed yields exactly one diagnostic, at its position,
\* and no other if statement yields one; Scenario 1 gives one diagnostic, Scenario 2
\* none.
C11_SixConditions ==
    /\ \A f \in 1..Len(pass.Files) : \A i \in 1..Len(pass.Files[f].ifs) :
          isErrorDemotionPattern(pass.Files[f].ifs, i) <=> SixConditions(<<f, i>>)
    /\ Returned =>
          /\ \A k \in 1..Len(IfNodes(pass)) :
                LET node == IfNodes(pass)[k]
                    unsuppressed == /\ ~hasNolintComment(pass, IfPos(pass, node))
                                    /\ ~hasResilienceDoc(pass, IfPos(pass, node))
                IN  DiagnosticCount(node) = IF SixConditions(node) /\ unsuppressed THEN 1 ELSE 0
          /\ \A k \in 1..Len(diagnostics) :
                diagnostics[k].line = pass.Files[diagnostics[k].file].ifs[diagnostics[k].stmt].line
          /\ pass = Scenario1 => Len(diagnostics) = 1
          /\ pass \in Scenario2 => diagnostics = <<>>

\* the analyzer reported an if statement that tests nil == err
C11_Witness ==
    /\ Returned /\ edited = <<>>
    /\ Len(diagnostics) = 1
    /\ pass.Files[1].ifs[1].cond.X = Ident(<<"nil">>)
    /\ pass.Files[1].comments = <<>>

\* the comment is a nolint directive: //nolint, maybe followed by a list of rules
IsDirective(text) == Len(text) >= 2 /\ text[1] = "//" /\ text[2] = "nolint"

\* the rules a directive names: the names between the colon and the first blank
RuleList(text) ==
    IF IsDirective(text) /\ Len(text) >= 3 /\ text[3] = ":"
    THEN LET stops == {k \in 4..Len(text) : text[k] = " "} \cup {Len(text) + 1}
             stop == CHOOSE k \in stops : \A l \in stops : k <= l
         IN  {text[k] : k \in 4..(stop - 1)} \ {","}
    ELSE {}

\* a comment without any word of the justification vocabulary
NoJustification(text) ==
    LET lower == [k \in 1..Len(text) |-> ToLower(text[k])]
    IN  \A keyword \in keywords : ~Contains(lower, keyword)

\* C12: a comment inside the directive window (the line of the matched if
\* statement or the line above) suppresses the diagnostic iff it is a nolint
\* directive that names errordemote, alone or in a list of rules, or a nolint
\* directive without rule list; Scenario 3 gives no diagnostic.
C12_DirectiveSuppression ==
    (/\ Returned /\ edited = <<>>
     /\ Len(pass.Files) = 1 /\ Len(pass.Files[1].ifs) = 1 /\ Len(pass.Files[1].comments) = 1
     /\ SixConditions(<<1, 1>>)
     /\ pass.Files[1].comments[1].line \in {pass.Files[1].ifs[1].line - 1,
                                           pass.Files[1].ifs[1].line}
     /\ NoJustification(pass.Files[1].comments[1].text))
    => LET text == pass.Files[1].comments[1].text
       IN  (diagnostics = <<>>) <=>
              /\ IsDirective(text)
              /\ "errordemote" \in RuleList(text) \/ RuleList(text) = {}

\* the if statements a diagnostic list reports
Flagged(ds) == {<<ds[k].file, ds[k].stmt>> : k \in 1..Len(ds)}

\* C13: a recognized directive or justification comment put on the line right
\* above one reported if statement removes the diagnostic of that if statement and
\* no other: the second run reports what the first run reported, less that one.
C13_SuppressionRemovesExactlyOne ==
    (Returned /\ edited # <<>>) =>
        /\ Flagged(diagnostics) =
              Flagged(edited[1].diagnostics) \ {<<edited[1].target.file, edited[1].target.stmt>>}
        /\ Len(diagnostics) = Len(edited[1].diagnostics) - 1

\* the nodes below the body of if statement i
NodesOfBody(ifs, i) ==
    Range(ifs[i].body)
    \cup UNION {NodesOfIf(ifs, j) :
                   j \in {k \in (i + 1)..Len(ifs) : ifs[k].parent = i /\ ifs[k].branch = "body"}}

\* the branch that runs when the tested error is not nil: the else branch of an
\* == test, the body of a != test
ErrorBranch(ifs, i) ==
    IF ifs[i].cond.op = "==" THEN NodesOfElse(ifs, i) ELSE NodesOfBody(ifs, i)

\* C14: an if statement (with init, nil test and both branches as the detector
\* wants them) is reported iff its error-handling branch logs at Info/Debug/Warn
\* level (a call of one of the log methods) and does not return the error: never
\* when that branch returns the error, always when it only logs.
C14_ErrorBranchDecides ==
    (Returned /\ edited = <<>> /\ Len(pass.Files) = 1 /\ pass.Files[1].comments = <<>>) =>
        \A i \in 1..Len(pass.Files[1].ifs) :
            LET ifs == pass.Files[1].ifs
                shaped == /\ ifs[i].init.kind = "assign" /\ ifs[i].init.tok = ":="
                          /\ Len(ifs[i].init.lhs) >= 2
                          /\ ErrorLike(ifs[i].init.lhs[Len(ifs[i].init.lhs)])
                          /\ ifs[i].cond \in {ErrIsNil, ErrNotNil}
                          /\ ifs[i].else # <<>>
                branch == ErrorBranch(ifs, i)
                logs == \E n \in branch :
                           n.kind = "call" /\ n.selector /\ n.sel \in logMethods
                returnsError == \E n \in branch :
                                   n.kind = "return"
                                   /\ \E k \in 1..Len(n.results) : ErrorLike(n.results[k])
            IN  /\ DiagnosticCount(<<1, i>>) > 0 => logs /\ ~returnsError
                /\ (shaped /\ returnsError) => DiagnosticCount(<<1, i>>) = 0
                /\ (shaped /\ logs /\ ~returnsError) => DiagnosticCount(<<1, i>>) > 0

------------------------------------------------------------------------------
(* The rules on loaded bundles *)

\* rules.ValidateBundle has returned and the rule id was among the rules run
Ran(id) == pc = "validated" /\ id \in Range(rulesToRun)

\* the violations of rule id located at the i-th manifest
At(id, i) == {k \in 1..Len(violations) :
                 violations[k].RuleID = id /\ violations[k].File = ManifestPath(i)}

\* exactly n violations of rule id at the i-th manifest, all of severity sev
Yields(id, i, n, sev) ==
    /\ Cardinality(At(id, i)) = n
    /\ \A k \in At(id, i) : violations[k].Severity = sev

\* the document of the i-th manifest as it is written on disk
Manifest(i) == OnDisk.manifests[i].doc

\* the value is the boolean true or one of the strings "true", "True", "TRUE"
TrueLiteral(val) ==
    val \in {BoolVal(TRUE), StrVal(<<"true">>), StrVal(<<"True">>), StrVal(<<"TRUE">>)}

\* C15: with ODH-OLM-006 active, every PriorityClass manifest of the loaded bundle
\* whose top-level globalDefault is true (boolean, or "true", "True", "TRUE") has
\* exactly one Error violation, and every other PriorityClass manifest has none
C15_GlobalDefaultReported ==
    Ran("ODH-OLM-006") =>
        \A i \in 1..Len(fs.manifests) :
            Manifest(i).kind = "PriorityClass" =>
                IF "globalDefault" \in DOMAIN Manifest(i).top
                   /\ TrueLiteral(Manifest(i).top.globalDefault)
                THEN Yields("ODH-OLM-006", i, 1, SeverityError)
                ELSE Yields("ODH-OLM-006", i, 0, SeverityError)

\* the README example of ODH-OLM-006 alone: a top-level globalDefault: true is reported
C15_ReadmeExampleReported ==
    (Ran("ODH-OLM-006") /\ fs.manifests = <<"priorityclass.yaml">>) =>
        Yields("ODH-OLM-006", 1, 1, SeverityError)

\* a PriorityClass with a top-level globalDefault is never reported
C15_TopLevelNeverReported ==
    Ran("ODH-OLM-006") =>
        \A i \in 1..Len(fs.manifests) :
            (Manifest(i).kind = "PriorityClass" /\ Manifest(i).spec = <<>>) =>
                Yields("ODH-OLM-006", i, 0, SeverityError)


\* the value is zero: the integer 0, the float 0.0, or a string that is "0" or "0%"
\* between any number of spaces
ZeroLiteral(val) ==
    \/ val.t \in {"int", "float"} /\ val.n = 0
    \/ /\ val.t = "string"
       /\ \E k \in 1..Len(val.s) :
             /\ val.s[k] \in {"0", "0%"}
             /\ \A j \in 1..Len(val.s) : j # k => val.s[j] = Space

\* the i-th manifest is a generic resource: neither a CSV nor a CRD
Generic(i) == Manifest(i).kind \notin {"ClusterServiceVersion", "CustomResourceDefinition"}

\* C16: ODH-OLM-004 yields exactly one Error violation for each PodDisruptionBudget
\* whose spec.maxUnavailable is zero (0, 0.0, "0", "0%", spaces around the string
\* ignored) and none for another value, an absent field or another kind
C16_ZeroMaxUnavailableReported ==
    Ran("ODH-OLM-004") =>
        \A i \in 1..Len(fs.manifests) :
            Generic(i) =>
                IF /\ Manifest(i).kind = "PodDisruptionBudget"
                   /\ "maxUnavailable" \in DOMAIN Manifest(i).spec
                   /\ ZeroLiteral(Manifest(i).spec.maxUnavailable)
                THEN Yields("ODH-OLM-004", i, 1, SeverityError)
                ELSE Yields("ODH-OLM-004", i, 0, SeverityError)

\* an integer 0 and a padded string " 0 " in one bundle, one violation each
C16_Witness ==
    /\ Ran("ODH-OLM-004")
    /\ fs.manifests = <<"pdb-int-0.yaml", "pdb-str-padded-0.yaml">>
    /\ Yields("ODH-OLM-004", 1, 1, SeverityError)
    /\ Yields("ODH-OLM-004", 2, 1, SeverityError)
    /\ Len(violations) = 2

\* the violations of rule id, wherever they are located
Of(id) == {k \in 1..Len(violations) : violations[k].RuleID = id}

\* the manifests that hold a CSV; the last of them is the CSV of the bundle
CSVManifests == {i \in 1..Len(fs.manifests) : Manifest(i).kind = "ClusterServiceVersion"}

PrimaryCSV == CHOOSE i \in CSVManifests : \A j \in CSVManifests : j <= i

\* C17: for a bundle with a CSV, ODH-OLM-001 yields exactly one violation, a Warning
\* at the CSV file with Line 0, if spec.minKubeVersion is empty or missing, and no
\* violation if it is non-empty
C17_MissingMinKubeVersionWarned ==
    (Ran("ODH-OLM-001") /\ CSVManifests # {}) =>
        IF Get(Manifest(PrimaryCSV).spec, "minKubeVersion", "") = ""
        THEN /\ Cardinality(Of("ODH-OLM-001")) = 1
             /\ \A k \in Of("ODH-OLM-001") :
                    /\ violations[k].Severity = SeverityWarning
                    /\ violations[k].File = ManifestPath(PrimaryCSV)
                    /\ violations[k].Line = 0
        ELSE Of("ODH-OLM-001") = {}

\* Scenario 4: a CSV whose minKubeVersion is the empty string, one Warning
C17_Witness ==
    /\ Ran("ODH-OLM-001")
    /\ fs.manifests = <<"csv-empty-minkube.yaml">>
    /\ "minKubeVersion" \in DOMAIN Manifest(1).spec
    /\ Cardinality(Of("ODH-OLM-001")) = 1
    /\ \A k \in Of("ODH-OLM-001") : violations[k].Severity = SeverityWarning

\* the webhook definitions of the CSV of the bundle, as written on disk
WebhooksOnDisk == Get(Manifest(PrimaryCSV).spec, "webhookdefinitions", <<>>)

\* the spellings of the webhook configuration resources among the words of the model
WebhookConfigSpellings ==
    {"validatingwebhookconfigurations", "ValidatingWebhookConfigurations",
     "mutatingwebhookconfigurations", "MutatingWebhookConfigurations"}

\* the webhook rule satisfies the condition c: 1 all API groups, 2 the group
\* operators.coreos.com, 3 the webhook configuration resources
Intercepts(rule, c) ==
    CASE c = 1 -> "*" \in Range(rule.APIGroups)
      [] c = 2 -> "operators.coreos.com" \in Range(rule.APIGroups)
      [] c = 3 -> Range(rule.Resources) \cap WebhookConfigSpellings # {}

\* the (webhook, rule, condition) triples ODH-OLM-002 is to report: conversion
\* webhooks are left out
Intercepting ==
    {t \in (1..Len(WebhooksOnDisk)) \X (1..3) \X (1..3) :
        /\ WebhooksOnDisk[t[1]].Type # "ConversionWebhook"
        /\ t[2] <= Len(WebhooksOnDisk[t[1]].Rules)
        /\ Intercepts(WebhooksOnDisk[t[1]].Rules[t[2]], t[3])}

\* no webhook of the model has more rules than the triples range over
RulesCovered == \A w \in 1..Len(WebhooksOnDisk) : Len(WebhooksOnDisk[w].Rules) <= 3

\* C18: ODH-OLM-002 reports one Error violation for each pair of a rule of a
\* non-conversion webhook and a condition the rule satisfies (all API groups, the
\* group operators.coreos.com, the webhook configuration resources in any case), so
\* it reports at least one if and only if some such rule satisfies some condition
C18_OnePerRuleAndCondition ==
    (Ran("ODH-OLM-002") /\ CSVManifests # {}) =>
        /\ RulesCovered
        /\ Cardinality(Of("ODH-OLM-002")) = Cardinality(Intercepting)
        /\ \A k \in Of("ODH-OLM-002") :
              /\ violations[k].Severity = SeverityError
              /\ violations[k].File = ManifestPath(PrimaryCSV)

\* one webhook rule that satisfies all three conditions, reported three times
C18_Witness ==
    /\ Ran("ODH-OLM-002")
    /\ fs.manifests = <<"hook-all-three.yaml">>
    /\ Len(WebhooksOnDisk) = 1 /\ Len(WebhooksOnDisk[1].Rules) = 1
    /\ Cardinality(Of("ODH-OLM-002")) = 3

\* a conversion webhook whose rule satisfies all three conditions, not reported
C18_ConversionSkipped ==
    /\ Ran("ODH-OLM-002")
    /\ fs.manifests = <<"hook-conversion-only.yaml">>
    /\ Of("ODH-OLM-002") = {}

\* the install modes of the CSV of the bundle, as written on disk
ModesOnDisk == Get(Manifest(PrimaryCSV).spec, "installModes", <<>>)

\* the CSV of the bundle has a webhook definition of type ConversionWebhook
FeaturesConversion ==
    \E w \in 1..Len(WebhooksOnDisk) : WebhooksOnDisk[w].Type = "ConversionWebhook"

\* the CSV of the bundle marks an install mode of the given types as supported
Supports(types) ==
    \E m \in 1..Len(ModesOnDisk) : ModesOnDisk[m].Type \in types /\ ModesOnDisk[m].Supported

OtherInstallModes == {"OwnNamespace", "SingleNamespace", "MultiNamespace"}

\* C19: ODH-OLM-003 yields exactly one Error violation if the CSV has a conversion
\* webhook and no install mode AllNamespaces with supported = true, and none in
\* every other case
C19_ConversionNeedsAllNamespaces ==
    (Ran("ODH-OLM-003") /\ CSVManifests # {}) =>
        /\ Cardinality(Of("ODH-OLM-003")) =
              IF FeaturesConversion /\ ~Supports({"AllNamespaces"}) THEN 1 ELSE 0
        /\ \A k \in Of("ODH-OLM-003") :
              /\ violations[k].Severity = SeverityError
              /\ violations[k].File = ManifestPath(PrimaryCSV)

\* a conversion webhook and an AllNamespaces entry with supported = false, reported once
C19_Witness ==
    /\ Ran("ODH-OLM-003")
    /\ fs.manifests = <<"modes-all-false.yaml">>
    /\ FeaturesConversion
    /\ \E m \in 1..Len(ModesOnDisk) : ModesOnDisk[m].Type = "AllNamespaces"
    /\ Cardinality(Of("ODH-OLM-003")) = 1

\* C20: a CSV with a conversion webhook that marks an install mode other than
\* AllNamespaces as supported is reported by ODH-OLM-003
C20_OnlyAllNamespaces ==
    (Ran("ODH-OLM-003") /\ CSVManifests # {}) =>
        ((FeaturesConversion /\ Supports(OtherInstallModes)) => Of("ODH-OLM-003") # {})

\* what the rule does instead: with AllNamespaces supported nothing is reported,
\* whatever else is supported
C20_OtherModesPass ==
    (Ran("ODH-OLM-003") /\ CSVManifests # {}) =>
        (Supports({"AllNamespaces"}) => Of("ODH-OLM-003") = {})

\* the manifests that hold a CRD
CRDManifests ==
    {i \in 1..Len(fs.manifests) : Manifest(i).kind = "CustomResourceDefinition"}

\* the CRD names declared in conversionCRDs of the conversion webhooks of the CSV
DeclaredCRDs ==
    IF CSVManifests = {} THEN {}
    ELSE UNION {Range(WebhooksOnDisk[w].ConversionCRDs) :
                   w \in {v \in 1..Len(WebhooksOnDisk) :
                             WebhooksOnDisk[v].Type = "ConversionWebhook"}}

\* <plural>.<group> of the CRD of the i-th manifest
FullName(i) == <<Get(Manifest(i).spec, "plural", "")>> \o <<".">>
               \o <<Get(Manifest(i).spec, "group", "")>>

\* C21: ODH-OLM-010 yields exactly one Error violation at the file of each CRD that
\* is targeted by a conversion webhook of the CSV and has preserveUnknownFields =
\* true, and none for a targeted CRD with the field false or unset or for a CRD no
\* conversion webhook targets
C21_TargetedPreservingCRDsReported ==
    Ran("ODH-OLM-010") =>
        /\ \A i \in CRDManifests :
              IF /\ FullName(i) \in DeclaredCRDs
                 /\ Get(Manifest(i).spec, "preserveUnknownFields", <<>>) = <<TRUE>>
              THEN Yields("ODH-OLM-010", i, 1, SeverityError)
              ELSE Yields("ODH-OLM-010", i, 0, SeverityError)
        /\ \A k \in Of("ODH-OLM-010") :
              \E i \in CRDManifests : violations[k].File = ManifestPath(i)

\* two conversion webhooks target two CRDs that both preserve unknown fields
C21_Witness ==
    /\ Ran("ODH-OLM-010")
    /\ fs.manifests = <<"conv-two-webhooks.yaml", "crd-gadgets-true.yaml",
                        "crd-widgets-true.yaml">>
    /\ Yields("ODH-OLM-010", 2, 1, SeverityError)
    /\ Yields("ODH-OLM-010", 3, 1, SeverityError)
    /\ Cardinality(Of("ODH-OLM-010")) = 2

\* a declared CRD name that is the <plural>.<group> of no CRD of the bundle
Unresolved(name) == name \in DeclaredCRDs /\ \A i \in CRDManifests : FullName(i) # name

\* the k-th violation names the CRD in its message
Mentions(k, name) ==
    \E a \in 1..Len(violations[k].Message) :
        /\ a + Len(name) - 1 <= Len(violations[k].Message)
        /\ SubSeq(violations[k].Message, a, a + Len(name) - 1) = name

\* C29: every CRD name declared in conversionCRDs of a conversion webhook that
\* resolves to no CRD of the bundle is reported by ODH-OLM-010
C29_UnresolvedCRDReported ==
    Ran("ODH-OLM-010") =>
        \A name \in DeclaredCRDs :
            Unresolved(name) => \E k \in Of("ODH-OLM-010") : Mentions(k, name)

\* what the rule does instead: a name without a CRD in the bundle is never mentioned
C29_UnresolvedCRDSkipped ==
    Ran("ODH-OLM-010") =>
        \A name \in DeclaredCRDs :
            Unresolved(name) => \A k \in 1..Len(violations) : ~Mentions(k, name)

\* the annotations document is present and decodes
AnnotationsPresent == fs.root /\ OnDisk.annotations.state = "ok"

\* the entries of the comma-separated channel list, spaces around the names removed
ChannelEntries ==
    IF OnDisk.annotations.channels = <<>> THEN <<>>
    ELSE LET parts == Split(OnDisk.annotations.channels)
         IN  [i \in 1..Len(parts) |-> TrimSpace(parts[i])]

\* the spellings of the recommended prefixes among the words of the model
PrefixSpellings ==
    {"stable", "Stable", "fast", "FAST", "candidate", "preview", "alpha", "beta", "Beta"}

\* the channels that are named and whose name starts with no recommended prefix
Discouraged ==
    {i \in 1..Len(ChannelEntries) :
        ChannelEntries[i] # <<>> /\ ChannelEntries[i][1] \notin PrefixSpellings}

\* C22: with the annotations document present, ODH-OLM-007 yields one Warning for
\* each channel of the list whose name starts with no recommended prefix (in any
\* case) and none for the others; a list of recommended names yields no violation,
\* also with a trailing comma or spaces around the names
C22_OneWarningPerDiscouragedChannel ==
    (Ran("ODH-OLM-007") /\ AnnotationsPresent) =>
        /\ Cardinality(Of("ODH-OLM-007")) = Cardinality(Discouraged)
        /\ \A k \in Of("ODH-OLM-007") : violations[k].Severity = SeverityWarning

\* the recommended list with a trailing comma alone: no violation
C22_TrailingCommaClean ==
    (Ran("ODH-OLM-007") /\ fs.annotations = "stable-v2,fast-v2,") =>
        Of("ODH-OLM-007") = {}

\* what the rule does instead: the empty entry after a trailing comma is a channel
\* of its own and is reported
C22_EmptyEntryReported ==
    (Ran("ODH-OLM-007") /\ AnnotationsPresent) =>
        /\ Cardinality(Of("ODH-OLM-007")) =
              Cardinality(Discouraged)
              + Cardinality({i \in 1..Len(ChannelEntries) : ChannelEntries[i] = <<>>})
        /\ \A k \in Of("ODH-OLM-007") : violations[k].Severity = SeverityWarning

------------------------------------------------------------------------------
(* The rule registry *)

\* the positions of the registry whose rule has the ID id
Registered(id) == {i \in 1..Len(GetAllRules) : GetAllRules[i] = id}

\* C23: the rules of GetAllRules have pairwise distinct IDs; every call of
\* GetAllRules returns the same 8 IDs in the same order; GetRuleByID returns the
\* registry rule whose ID is the id asked for when there is one and nil otherwise,
\* so the lookup of the registry IDs is a bijection onto the registry
C23_IDsUniqueAndLookupExact ==
    /\ \A i, j \in 1..Len(GetAllRules) : GetAllRules[i] = GetAllRules[j] => i = j
    /\ \A k \in 1..Len(listing) : Len(listing[k]) = 8 /\ listing[k] = listing[1]
    /\ looked =>
          IF Registered(query) = {} THEN found = <<>>
          ELSE /\ Len(found) = 1
               /\ found[1] \in Registered(query)
    /\ \A i \in 1..Len(GetAllRules) : GetRuleByID(GetAllRules[i]) = <<i>>

\* an id that is not registered was looked up and GetAllRules was called twice
C23_Witness ==
    /\ looked
    /\ query = "ODH-OLM-008"
    /\ found = <<>>
    /\ Len(listing) >= 2

\* a registered id was looked up and its rule came back
C23_Found ==
    /\ looked
    /\ query = "ODH-OLM-010"
    /\ found = <<8>>

------------------------------------------------------------------------------
(* The report of a run *)

\* the lines that indicate success
SuccessKinds == {"No issues found", "All checks passed!"}

\* the lines main writes itself, ahead of the report
ProgressKinds == {"Loading bundle from", "Running validation rule(s)"}

\* the lines the reporter wrote
ReportLines == SelectSeq(stdout, LAMBDA l : l.kind \notin ProgressKinds)

SuccessLines == SelectSeq(ReportLines, LAMBDA l : l.kind \in SuccessKinds)

\* C24: when the final violation list is empty, the report of the run is exactly
\* one success line, without counts and without violation blocks
C24_SingleSuccessLine ==
    (Reported /\ violations = <<>> /\ ~stdoutFails) =>
        /\ Len(SuccessLines) = 1
        /\ ReportLines = SuccessLines

\* what the run writes instead: the success line of Report and then the success
\* line of ReportSummary, and nothing else
C24_TwoSuccessLines ==
    (Reported /\ violations = <<>> /\ ~stdoutFails) =>
        ReportLines = <<Line("No issues found", 0, 0, <<>>),
                        Line("All checks passed!", 0, 0, <<>>)>>

------------------------------------------------------------------------------
(* The --no-warnings flag *)

\* the outcome of one run of main on the inputs of the state, with --no-warnings
\* as given
RunWith(noWarn) ==
    LET loading == Written(<<Line("Loading bundle from", 0, 0, <<>>)>>)
        l == LoadBundle(OnDisk)
        selected == selectRules(enable, disable)
        running == Written(<<Line("Running validation rule(s)", Len(selected), 0, <<>>)>>)
        v == ValidateBundle(l.bundle[1], selected)
        r == Report(v.violations)
    IN  IF l.err # <<>>
        THEN [violations |-> <<>>, stdout |-> loading,
              stderr |-> <<"Error loading bundle">>, exitCode |-> <<1>>]
        ELSE IF v.panicked
        THEN [violations |-> v.violations, stdout |-> loading \o running,
              stderr |-> <<"panic: nil pointer dereference">>, exitCode |-> <<2>>]
        ELSE IF Len(v.violations) = 0 /\ stdoutFails
        THEN [violations |-> v.violations, stdout |-> loading \o running,
              stderr |-> <<"Error reporting results">>, exitCode |-> <<1>>]
        ELSE [violations |-> r.violations,
              stdout |-> loading \o running
                         \o Written(r.out \o ReportSummary(r.violations).out),
              stderr |-> <<>>, exitCode |-> <<ExitStatus(r.violations, noWarn)>>]

------------------------------------------------------------------------------
(* The suppression windows *)

\* a directive as the detector takes it: //nolint without a rule list, or with
\* errordemote at the head of the list
Directive(text) ==
    IsDirective(text) /\ (RuleList(text) = {} \/ (Len(text) >= 4 /\ text[4] = "errordemote"))

\* a comment with a word of the justification vocabulary, in any case
Justification(text) == ~NoJustification(text)

\* the comment c suppresses a candidate on line L: a directive on L-1 or L, a
\* justification on L-3, L-2 or L-1
InWindow(c, L) ==
    \/ Directive(c.text) /\ c.line \in {L - 1, L}
    \/ Justification(c.text) /\ c.line \in {L - 3, L - 2, L - 1}

\* the candidates of the first file of the package
Candidates == {i \in 1..Len(pass.Files[1].ifs) : SixConditions(<<1, i>>)}

C26_OutsideWindow ==
    /\ Returned /\ edited = <<>>
    /\ Len(pass.Files) = 1 /\ Candidates = {1}
    /\ pass.Files[1].comments = <<Comment(pass.Files[1].ifs[1].line - 4, OptionalNote)>>
    /\ Len(diagnostics) = 1

\* the candidates of file f
CandidatesOf(f) == {i \in 1..Len(pass.Files[f].ifs) : SixConditions(<<f, i>>)}

\* the comment neither is a directive nor holds a word the detector looks for
Harmless(text) == ~Contains(text, <<"nolint">>) /\ NoJustification(text)

\* C27: whether a candidate on line L of file F is suppressed depends on the
\* comments of F only: a recognized directive or justification of F inside the
\* window suppresses it, whichever position F has in the package, and no comment
\* of another file does
C27_OwnFileOnly ==
    Returned =>
        \A f \in 1..Len(pass.Files) : \A i \in CandidatesOf(f) :
            LET comments == pass.Files[f].comments
                L == pass.Files[f].ifs[i].line
                inWindow == \E k \in 1..Len(comments) : InWindow(comments[k], L)
                plain == \A k \in 1..Len(comments) :
                             \/ Directive(comments[k].text)
                             \/ Justification(comments[k].text)
                             \/ Harmless(comments[k].text)
            IN  /\ inWindow => DiagnosticCount(<<f, i>>) = 0
                /\ (plain /\ ~inWindow) => DiagnosticCount(<<f, i>>) = 1

\* what the detector does instead: the directive right above a candidate of the
\* second file of the package is not seen, the candidate is reported
C27_SecondFileNotSuppressed ==
    (Returned /\ Len(pass.Files) = 2) =>
        \A i \in CandidatesOf(2) :
            (\E k \in 1..Len(pass.Files[2].comments) :
                InWindow(pass.Files[2].comments[k], pass.Files[2].ifs[i].line))
            => DiagnosticCount(<<2, i>>) = 1

------------------------------------------------------------------------------
(* The stages of LoadBundle *)

\* the load has failed on a root that exists and lacks the manifests directory
LoadedWithoutManifestsDir ==
    pc = "exited" /\ fs.root /\ fs.manifestsDir = "absent"

\* C28: LoadBundle looks for the manifests directory before it reads the
\* annotations document: on a root without the manifests directory the load fails
\* with the manifests-directory error, whatever the annotations document holds
C28_ManifestsDirBeforeAnnotations ==
    LoadedWithoutManifestsDir =>
        /\ loadErr # <<>>
        /\ loadErr[1] = "failed to load manifests"

\* what LoadBundle does instead: the annotations document is read and parsed
\* first, and when it is broken its error is the one returned
C28_AnnotationsFirst ==
    LoadedWithoutManifestsDir =>
        IF OnDisk.annotations.state \in {"unreadable", "invalid"}
        THEN loadErr[1] = "failed to load annotations"
        ELSE loadErr[1] = "failed to load manifests"

------------------------------------------------------------------------------
(* ValidateBundle *)

\* how often each element occurs in the sequence
Multiset(seq) == [x \in Range(seq) |-> Cardinality({i \in 1..Len(seq) : seq[i] = x})]

\* the list with the elements at k and k + 1 exchanged
Transposed(s, k) ==
    [i \in 1..Len(s) |-> IF i = k THEN s[k + 1] ELSE IF i = k + 1 THEN s[k] ELSE s[i]]

\* orders of the active rules: the list, its reverse, its rotations and its
\* neighbour transpositions, which generate every permutation
ActiveOrders ==
    RuleOrders(rulesToRun)
    \cup {Transposed(rulesToRun, k) : k \in 1..(Len(rulesToRun) - 1)}

\* what the rule id yields when it runs alone on the bundle
Alone(id) == ValidateBundle(bundle[1], <<id>>).violations

\* C30: ValidateBundle calls Validate once for each active rule, leaves the bundle
\* as it is and returns the per-rule results concatenated in the order of the
\* active list; a rule yields the same whichever other rules are active, so the
\* multiset of violations is the same for every order of the list and is the
\* union of what each rule yields alone
C30_RulesIndependent ==
    pc = "validated" =>
        /\ validated = rulesToRun
        /\ bundle = LoadBundle(OnDisk).bundle
        /\ violations = Flatten([i \in 1..Len(rulesToRun) |-> Alone(rulesToRun[i])])
        /\ \A i \in 1..Len(rulesToRun) :
              SelectSeq(violations, LAMBDA v : v.RuleID = rulesToRun[i]) = Alone(rulesToRun[i])
        /\ \A order \in ActiveOrders :
              Multiset(ValidateBundle(bundle[1], order).violations) = Multiset(violations)

\* all eight rules have run and three of them have found something
C30_Witness ==
    /\ pc = "validated"
    /\ Len(rulesToRun) = 8
    /\ Cardinality({violations[k].RuleID : k \in 1..Len(violations)}) >= 3
====
